---- MODULE Spec2Model ----
(***************************************************************************)
(* Model of the trading-bot backtest core:                                 *)
(*   - BaseStrategy._simulate_trading      (app/core/strategy.py)          *)
(*   - CDCActionZoneStrategy.get_indicators / calculate_signals            *)
(*                                         (app/strategies/cdc_actionzone) *)
(*   - BaseStrategy.run_backtest           (app/core/strategy.py)          *)
(*   - BacktestReport._analyze_trades / _calculate_drawdown_periods /      *)
(*     generate_summary                    (app/core/backtest_report.py)   *)
(*   - TradingService.start_live_trading / stop_live_trading               *)
(*                                         (app/services/trading/service)  *)
(*   - LiveTrader.start_trading / stop_trading / _handle_trade_update /    *)
(*     _check_for_signals / _execute_signal (app/trading/live_trader.py)   *)
(*                                                                         *)
(* Specifications: SpecSim (the simulator on any signal list),             *)
(* SpecUnchecked (the simulator under configurations outside the           *)
(* documented ranges), SpecSignals (the signal generator), SpecZones (the  *)
(* zone flags on any triple), SpecBacktest (run_backtest twice on one      *)
(* instance), SpecReport (the report on any StrategyResult), SpecDrawdown  *)
(* (the report's drawdown scan on any equity curve), SpecPipeline          *)
(* (run_backtest, then the report on its result), SpecService (one client  *)
(* of the TradingService and the threads it starts), SpecStream (a         *)
(* LiveTrader on a stream of trade updates) and SpecBurst (a LiveTrader on *)
(* more updates than its history keeps).                                   *)
(*                                                                         *)
(* Numbers.  The code computes in IEEE doubles.  A value of the model is   *)
(* a rational <<n, d>> (d > 0, lowest terms) or one of the special values  *)
(* a division by a zero close produces: <<1, 0>> is +inf, <<0, 0>> is NaN. *)
(* The arithmetic of the simulator, of run_backtest and of the report      *)
(* rounds every result to the nearest float of                             *)
(* Precision significant bits, ties to even (the doubles have 53; the      *)
(* exponent range is not bounded).  The moving averages of the indicator   *)
(* engine are computed exactly: only their order is used.  A standard      *)
(* deviation is NaN, 0 or positive, and a quotient by a positive one keeps *)
(* its sign only: the magnitudes of sharpe_ratio and volatility are not    *)
(* computed.                                                               *)
(*                                                                         *)
(* Time.  A bar's timestamp is its 1-based position in the bar series, so  *)
(* the code's bar i (0-based) is the model's bar i + 1.                    *)
(* The live stream counts minutes from 1: a trade's timestamp is its       *)
(* minute, and so is the label of the resampled bar it falls in.           *)
(***************************************************************************)
EXTENDS Integers, Sequences, FiniteSets, TLC

VARIABLES
    bars,              \* data["close"]: the close of every bar, in bar order
    cfg,               \* StrategyConfig: cash, max_position_size
    params,            \* fast_period, slow_period, smoothing
    signals,           \* the List[Signal] given to / built by the code
    pc,                \* position of the running method
    i,                 \* bar index of the running loop
    j,                 \* index in `signals` of the inner loop
    current_cash,      \* _simulate_trading locals
    current_position,
    current_price,
    equity,            \* the pd.Series returned by _simulate_trading
    log,               \* logger.debug records of executed signals
    before,            \* cash, position and number of log records when the scan of
                       \* the current bar's signals began
    ind,               \* get_indicators' result
    bullish,           \* calculate_signals' series `bullish`
    bearish,           \* calculate_signals' series `bearish`
    buy,               \* calculate_signals' series `buy`
    sell,              \* calculate_signals' series `sell`
    stage,             \* position of run_backtest
    result,            \* the StrategyResult run_backtest returned last
    previous,          \* the StrategyResult of the call before, on the same instance
    instance,          \* the strategy object's attributes self.signals, self.current_position
    trades,            \* BacktestReport._analyze_trades' list `trades`
    open_trade,        \* _analyze_trades' local `current_position` (a trade dict or None)
    summary,           \* generate_summary's return value
    dd_scan,           \* _calculate_drawdown_periods' locals in_drawdown, start_date,
                       \* max_drawdown
    drawdown_periods,  \* _calculate_drawdown_periods' list `drawdown_periods`
    service,           \* the TradingService object: is_trading, current_symbol,
                       \* current_strategy, start_time, live_trader
    traders,           \* the LiveTrader objects created so far: is_running, cash,
                       \* current_position, trade_history, price_history
    threads,           \* the background threads start_live_trading has started
    call,              \* the service call in progress and the response it returned
    market,            \* the wall clock and the data stream: time, last price
    handler,           \* position of _handle_trade_update / _check_for_signals
    effects            \* what left the LiveTrader: orders, callbacks, error records

vars == <<bars, cfg, params, signals, pc, i, j, current_cash, current_position,
          current_price, equity, log, before, ind, bullish, bearish, buy, sell,
          stage, result, previous, instance, trades, open_trade, summary,
          dd_scan, drawdown_periods, service, traders, threads, call, market,
          handler, effects>>

simVars == <<i, j, current_cash, current_position, current_price, equity, log, before>>
calcVars == <<ind, bullish, bearish, buy, sell>>
runVars == <<stage, result, previous, instance>>
ddVars == <<dd_scan, drawdown_periods>>

reportVars == <<trades, open_trade, summary, ddVars>>
liveVars == <<service, traders, threads, call, market, handler, effects>>
nonLive == <<bars, cfg, params, signals, pc, simVars, calcVars, runVars, reportVars>>

----
(* Bounds of the model *)

MaxSimBars == 2
MaxSimSignals == 3
MaxBars == 5

\* Bars of a series given to run_backtest
MaxRunBars == 4

\* Signals of a StrategyResult given to BacktestReport
MaxReportSignals == 4

\* Bars of a series given to run_backtest when a report follows
MaxPipelineBars == 5

\* Points of an equity curve given to BacktestReport
MaxCurveLen == 5

\* Significant bits of a float of the model
Precision == 5

----
(* Exact rational arithmetic with the doubles' inf and NaN *)

Abs(x) == IF x < 0 THEN -x ELSE x

RECURSIVE GCD(_, _)
GCD(a, b) == IF b = 0 THEN a ELSE GCD(b, a % b)

NaN == <<0, 0>>
PosInf == <<1, 0>>
NegInf == <<-1, 0>>

IsNaN(a) == a = NaN
IsFinite(a) == a[2] # 0

Sign(x) == IF x > 0 THEN 1 ELSE IF x < 0 THEN -1 ELSE 0

R(n, d) ==
    IF d = 0 THEN <<Sign(n), 0>>
    ELSE LET s == IF d < 0 THEN -1 ELSE 1
             g == GCD(Abs(n), Abs(d))
         IN <<(s * n) \div g, (s * d) \div g>>

RInt(n) == <<n, 1>>
Zero == <<0, 1>>
One == <<1, 1>>

\* The finite cases cancel common factors before they multiply, which keeps the
\* intermediate integers small
RMul(a, b) ==
    IF IsNaN(a) \/ IsNaN(b) THEN NaN
    ELSE IF IsFinite(a) /\ IsFinite(b)
         THEN LET g1 == GCD(Abs(a[1]), b[2])
                  g2 == GCD(Abs(b[1]), a[2])
              IN R((a[1] \div g1) * (b[1] \div g2), (a[2] \div g2) * (b[2] \div g1))
    ELSE <<Sign(a[1]) * Sign(b[1]), 0>>          \* inf * 0 = NaN

RDiv(a, b) ==
    IF IsNaN(a) \/ IsNaN(b) THEN NaN
    ELSE IF IsFinite(a) /\ IsFinite(b)                 \* x / 0 = +-inf, 0 / 0 = NaN
         THEN LET g1 == GCD(Abs(a[1]), Abs(b[1]))
                  g2 == GCD(a[2], b[2])
              IN IF b[1] = 0 THEN <<Sign(a[1]), 0>>
                 ELSE R((a[1] \div g1) * (b[2] \div g2), (a[2] \div g2) * (b[1] \div g1))
    ELSE IF IsFinite(a) THEN Zero
    ELSE IF IsFinite(b) THEN <<a[1] * (IF b[1] < 0 THEN -1 ELSE 1), 0>>
    ELSE NaN

RAdd(a, b) ==
    IF IsNaN(a) \/ IsNaN(b) THEN NaN
    ELSE IF IsFinite(a) /\ IsFinite(b)
         THEN LET g == GCD(a[2], b[2])
              IN R(a[1] * (b[2] \div g) + b[1] * (a[2] \div g), (a[2] \div g) * b[2])
    ELSE IF IsFinite(a) THEN b
    ELSE IF IsFinite(b) THEN a
    ELSE IF a = b THEN a ELSE NaN

RNeg(a) == <<-a[1], a[2]>>
RSub(a, b) == RAdd(a, RNeg(b))

\* a < b and a <= b as the doubles compare: FALSE whenever a NaN is involved
RLt(a, b) ==
    /\ ~IsNaN(a) /\ ~IsNaN(b)
    /\ IF IsFinite(a) /\ IsFinite(b)
       THEN LET g == GCD(a[2], b[2])
            IN a[1] * (b[2] \div g) < b[1] * (a[2] \div g)
       ELSE IF IsFinite(a) THEN b = PosInf
       ELSE IF IsFinite(b) THEN a = NegInf
       ELSE a = NegInf /\ b = PosInf

RLe(a, b) == ~IsNaN(a) /\ ~IsNaN(b) /\ (a = b \/ RLt(a, b))
RGt(a, b) == RLt(b, a)

----
(* Floating point: each operation is the exact one, rounded *)

RECURSIVE Pow2(_)
Pow2(k) == IF k = 0 THEN 1 ELSE 2 * Pow2(k - 1)

\* a / d > 0 scaled by a power of two into [2^(Precision-1), 2^Precision), rounded
\* to the nearest integer (ties to even) and scaled back
RECURSIVE RoundScaled(_, _, _)
RoundScaled(a, d, scale) ==
    IF a < Pow2(Precision - 1) * d THEN RoundScaled(2 * a, d, RMul(scale, <<1, 2>>))
    ELSE IF a >= Pow2(Precision) * d THEN RoundScaled(a, 2 * d, RMul(scale, <<2, 1>>))
    ELSE LET q == a \div d
             r == a % d
             m == IF 2 * r < d THEN q
                  ELSE IF 2 * r > d THEN q + 1
                  ELSE IF q % 2 = 0 THEN q ELSE q + 1
         IN RMul(RInt(m), scale)

\* Round to nearest, ties to even; zero, inf and NaN are themselves
Fl(x) ==
    IF ~IsFinite(x) \/ x[1] = 0 THEN x
    ELSE IF x[1] > 0 THEN RoundScaled(x[1], x[2], One)
    ELSE RNeg(RoundScaled(-x[1], x[2], One))

FMul(a, b) == Fl(RMul(a, b))
FDiv(a, b) == Fl(RDiv(a, b))
FAdd(a, b) == Fl(RAdd(a, b))
FSub(a, b) == Fl(RSub(a, b))

----
(* Signals (app/core/models.py) *)

BUY == "buy"
SELL == "sell"

\* Signal(timestamp, side, price = row["close"], quantity), as calculate_signals builds it
BuySignal(ts, close, config) ==
    [timestamp |-> ts, side |-> BUY, price |-> close,
     quantity |-> FDiv(FMul(config.cash, config.max_position_size), close)]

SellSignal(ts, close) ==
    [timestamp |-> ts, side |-> SELL, price |-> close, quantity |-> Zero]

----
(* BaseStrategy._simulate_trading (app/core/strategy.py:96-143) *)

\* Mutant: a BUY is taken whatever the position (positions stack)
BuyGuardStacking(pos) == TRUE

\* line 112: `current_position <= 0`
BuyGuard(pos) == RLe(pos, Zero)

\* line 128: `current_position > 0`
SellGuard(pos) == RGt(pos, Zero)

\* Mutant: the BUY is sized from the configured cash, not the current cash
SharesToBuyConfigCash(cash, mps, price) == FDiv(FMul(cfg.cash, mps), price)

\* lines 114-116
SharesToBuy(cash, mps, price) == FDiv(FMul(cash, mps), price)

\* Mutant: the cost forgets the price
BuyCostNoPrice(shares, price) == shares

\* line 117
BuyCost(shares, price) == FMul(shares, price)

\* Mutant: the affordability test is dropped
AffordableAlways(cost, cash) == TRUE

\* line 118: `cost <= current_cash`
Affordable(cost, cash) == RLe(cost, cash)

\* Mutant: the bought shares are subtracted
PositionAfterBuyMinus(pos, shares) == FSub(pos, shares)

\* line 119
PositionAfterBuy(pos, shares) == FAdd(pos, shares)

\* line 120
CashAfterBuy(cash, cost) == FSub(cash, cost)

\* Mutant: the proceeds forget the price
SellProceedsNoPrice(pos, price) == pos

\* line 130
SellProceeds(pos, price) == FMul(pos, price)

\* line 131
CashAfterSell(cash, proceeds) == FAdd(cash, proceeds)

\* Mutant: the equity forgets the position
EquityCashOnly(cash, pos, price) == cash

\* line 141
EquityValue(cash, pos, price) == FAdd(cash, FMul(pos, price))

BuyExecuted == "Buy signal executed"
SellExecuted == "Sell signal executed"

\* lines 98-103.  equity.iloc[0] on an empty series raises IndexError.
SimStart ==
    /\ pc = "simulate"
    /\ Len(bars) > 0
    /\ equity' = [t \in 1..Len(bars) |-> IF t = 1 THEN cfg.cash ELSE NaN]
    /\ current_cash' = cfg.cash
    /\ current_position' = Zero
    /\ current_price' = Zero
    /\ i' = 1
    /\ j' = 1
    /\ pc' = "bar"
    /\ UNCHANGED <<liveVars, runVars, reportVars, bars, cfg, params, signals, log, before, calcVars>>

SimRaise ==
    /\ pc = "simulate"
    /\ Len(bars) = 0
    /\ pc' = "raised"
    /\ UNCHANGED <<liveVars, runVars, reportVars, bars, cfg, params, signals, simVars, calcVars>>

\* What the claims about one bar compare with: the locals as the scan of the
\* bar's signals begins (line 109)
Snapshot(cash, position, records) ==
    [cash |-> cash, position |-> position, executed |-> Len(records)]

\* lines 105-107: the next bar; its close becomes the current price
SimBar ==
    /\ pc = "bar"
    /\ i <= Len(bars)
    /\ current_price' = RInt(bars[i])
    /\ j' = 1
    /\ pc' = "signals"
    /\ before' = Snapshot(current_cash, current_position, log)
    /\ UNCHANGED <<liveVars, runVars, reportVars, bars, cfg, params, signals, i, current_cash, current_position,
                   equity, log, calcVars>>

\* lines 110-111: a signal of another timestamp is passed over
SimOtherBar ==
    /\ pc = "signals"
    /\ j <= Len(signals)
    /\ signals[j].timestamp # i
    /\ j' = j + 1
    /\ UNCHANGED <<liveVars, runVars, reportVars, bars, cfg, params, signals, pc, i, current_cash, current_position, before,
                   current_price, equity, log, calcVars>>

\* lines 112-126: a BUY of this bar, with no position held
SimBuy ==
    /\ pc = "signals"
    /\ j <= Len(signals)
    /\ signals[j].timestamp = i
    /\ signals[j].side = BUY
    /\ BuyGuard(current_position)
    /\ LET shares_to_buy == SharesToBuy(current_cash, cfg.max_position_size, current_price)
           cost == BuyCost(shares_to_buy, current_price)
       IN IF Affordable(cost, current_cash)
          THEN /\ current_position' = PositionAfterBuy(current_position, shares_to_buy)
               /\ current_cash' = CashAfterBuy(current_cash, cost)
               /\ log' = Append(log, [event |-> BuyExecuted, shares |-> shares_to_buy,
                                      price |-> current_price, amount |-> cost])
          ELSE UNCHANGED <<current_position, current_cash, log>>
    /\ j' = j + 1
    /\ UNCHANGED <<liveVars, runVars, reportVars, bars, cfg, params, signals, pc, i, current_price, equity,
                   before, calcVars>>

\* lines 128-138: a SELL of this bar, with a position held.  The log record reads
\* current_position after it was set to 0.
SimSell ==
    /\ pc = "signals"
    /\ j <= Len(signals)
    /\ signals[j].timestamp = i
    /\ ~(signals[j].side = BUY /\ BuyGuard(current_position))
    /\ signals[j].side = SELL
    /\ SellGuard(current_position)
    /\ LET proceeds == SellProceeds(current_position, current_price)
       IN /\ current_cash' = CashAfterSell(current_cash, proceeds)
          /\ current_position' = Zero
          /\ log' = Append(log, [event |-> SellExecuted, shares |-> Zero,
                                 price |-> current_price, amount |-> proceeds])
    /\ j' = j + 1
    /\ UNCHANGED <<liveVars, runVars, reportVars, bars, cfg, params, signals, pc, i, current_price, equity,
                   before, calcVars>>

\* lines 112, 128: neither branch is taken
SimIgnore ==
    /\ pc = "signals"
    /\ j <= Len(signals)
    /\ signals[j].timestamp = i
    /\ ~(signals[j].side = BUY /\ BuyGuard(current_position))
    /\ ~(signals[j].side = SELL /\ SellGuard(current_position))
    /\ j' = j + 1
    /\ UNCHANGED <<liveVars, runVars, reportVars, bars, cfg, params, signals, pc, i, current_cash, current_position, before,
                   current_price, equity, log, calcVars>>

\* lines 140-141: after the signals of the bar, its equity
SimRecord ==
    /\ pc = "signals"
    /\ j > Len(signals)
    /\ equity' = [equity EXCEPT ![i] = EquityValue(current_cash, current_position,
                                                   current_price)]
    /\ i' = i + 1
    /\ pc' = "bar"
    /\ UNCHANGED <<liveVars, runVars, reportVars, bars, cfg, params, signals, j, current_cash, current_position, before,
                   current_price, log, calcVars>>

\* line 143
SimReturn ==
    /\ pc = "bar"
    /\ i > Len(bars)
    /\ pc' = "done"
    /\ UNCHANGED <<liveVars, runVars, reportVars, bars, cfg, params, signals, simVars, calcVars>>

----
(* The inputs of the simulator *)

SimCloses == {0, 1, 3}

BarSeries(closes, maxLen) == UNION {[1..n -> closes] : n \in 0..maxLen}

Half == <<1, 2>>
Quarter == <<1, 4>>
ThreeHalves == <<3, 2>>

\* cash > 0; max_position_size inside (0, 1] and, unvalidated by the code, above 1
Configs == {[cash |-> RInt(100), max_position_size |-> m] : m \in {Quarter, One, ThreeHalves}}

UnusedParams == [fast_period |-> 2, slow_period |-> 3, smoothing |-> 1]

NoIndicators == <<>>

\* None
NoResult == [none |-> TRUE]
NoTrade == [none |-> TRUE]
NoSummary == [none |-> TRUE]

\* BaseStrategy.__init__ (strategy.py:20-21)
NewInstance == [signals |-> <<>>, current_position |-> "None"]

\* The state outside a run_backtest call and outside a report
NotRunning ==
    /\ stage = "idle"
    /\ result = NoResult
    /\ previous = NoResult
    /\ instance = NewInstance

\* backtest_report.py:90-93: the locals before the first bar
NoDrawdown == [in_drawdown |-> FALSE, start_date |-> 0, max_drawdown |-> Zero]

NotReporting ==
    /\ trades = <<>>
    /\ open_trade = NoTrade
    /\ summary = NoSummary
    /\ dd_scan = NoDrawdown
    /\ drawdown_periods = <<>>

\* service.py:20-26: TradingService.__init__.  None is "None" for a name, 0 for a
\* time and for an object
NewService ==
    [is_trading |-> FALSE, current_symbol |-> "None", current_strategy |-> "None",
     start_time |-> 0, live_trader |-> 0]

\* No service call was made yet
NoCall == [op |-> "none", pc |-> "idle", n |-> 0, response |-> [none |-> TRUE],
           stopped |-> {}, settled |-> {}]

\* The data stream has delivered nothing; the clock shows minute 1
NoMarket == [now |-> 1, price |-> 1, ticks |-> 0, per_bar |-> 0]

\* No trade update is being handled
NoHandler == [pc |-> "idle", pending |-> <<>>, k |-> 0, updates |-> 0, checks |-> 0,
              ignored |-> 0]

\* Nothing has left a LiveTrader
NoEffects == [orders |-> <<>>, signal_callbacks |-> <<>>, trade_callbacks |-> <<>>,
              errors |-> <<>>]

\* The state before any live trading
NotLive ==
    /\ service = NewService
    /\ traders = <<>>
    /\ threads = <<>>
    /\ call = NoCall
    /\ market = NoMarket
    /\ handler = NoHandler
    /\ effects = NoEffects

\* Signal lists in timestamp order (several signals may share a bar), each signal
\* built as calculate_signals builds it from the bar of its timestamp
SignalLists(closes, config, maxLen) ==
    LET choice == (1..Len(closes)) \X {BUY, SELL}
        lists == UNION {[1..n -> choice] : n \in 0..maxLen}
        ordered == {l \in lists : \A k \in 1..(Len(l) - 1) : l[k][1] <= l[k + 1][1]}
        mk(c) == IF c[2] = BUY THEN BuySignal(c[1], RInt(closes[c[1]]), config)
                 ELSE SellSignal(c[1], RInt(closes[c[1]]))
    IN {[k \in 1..Len(l) |-> mk(l[k])] : l \in ordered}

InitSimOf(configs) ==
    /\ bars \in BarSeries(SimCloses, MaxSimBars)
    /\ cfg \in configs
    /\ signals \in SignalLists(bars, cfg, MaxSimSignals)
    /\ params = UnusedParams
    /\ pc = "simulate"
    /\ i = 0
    /\ j = 0
    /\ current_cash = Zero
    /\ current_position = Zero
    /\ current_price = Zero
    /\ equity = <<>>
    /\ log = <<>>
    /\ before = Snapshot(Zero, Zero, <<>>)
    /\ NotLive
    /\ ind = NoIndicators
    /\ buy = <<>>
    /\ sell = <<>>
    /\ bullish = <<>>
    /\ bearish = <<>>
    /\ NotRunning
    /\ NotReporting

NextSim ==
    \/ SimStart
    \/ SimRaise
    \/ SimBar
    \/ SimOtherBar
    \/ SimBuy
    \/ SimSell
    \/ SimIgnore
    \/ SimRecord
    \/ SimReturn

InitSim == InitSimOf(Configs)

SpecSim == InitSim /\ [][NextSim]_vars

\* StrategyConfig is a dataclass without validation (models.py:130-139) and
\* BaseStrategy.__init__ stores it as given (strategy.py:16-18): a configuration
\* with cash <= 0 or max_position_size outside (0, 1] is constructed and run too.
InvalidConfigs ==
    {[cash |-> Zero, max_position_size |-> Quarter],
     [cash |-> RInt(-100), max_position_size |-> Quarter],
     [cash |-> RInt(100), max_position_size |-> Zero],
     [cash |-> RInt(100), max_position_size |-> ThreeHalves]}

InitUnchecked == InitSimOf(Configs \cup InvalidConfigs)

SpecUnchecked == InitUnchecked /\ [][NextSim]_vars

----
(* CDCActionZoneStrategy.get_indicators (app/strategies/cdc_actionzone.py:41-73) *)

\* Series.ewm(span).mean() with pandas' defaults (adjust=True, min_periods=0):
\* y[t] = sum_k (1-alpha)^k x[t-k] / sum_k (1-alpha)^k, alpha = 2 / (span + 1),
\* defined from the first bar on
Decay(span) == R(span - 1, span + 1)

\* The running numerator and denominator of the weighted mean, bar by bar
RECURSIVE EwmScan(_, _, _, _, _)
EwmScan(xs, r, t, num, den) ==
    IF t > Len(xs) THEN <<>>
    ELSE LET n2 == IF t = 1 THEN xs[1] ELSE RAdd(xs[t], RMul(r, num))
             d2 == IF t = 1 THEN One ELSE RAdd(One, RMul(r, den))
         IN <<RDiv(n2, d2)>> \o EwmScan(xs, r, t + 1, n2, d2)

Ewm(xs, span) == EwmScan(xs, Decay(span), 1, Zero, One)

RECURSIVE ToFloats(_)
ToFloats(closes) ==
    IF closes = <<>> THEN <<>> ELSE <<RInt(Head(closes))>> \o ToFloats(Tail(closes))

\* Mutant: yellow does not test the price against the fast average
ZoneFlagsYellowLoose(p, f, s) ==
    LET bull == RGt(f, s)
        bear == RLt(f, s)
    IN [bull |-> bull,
        bear |-> bear,
        green |-> bull /\ RGt(p, f),
        blue |-> bear /\ RGt(p, f) /\ RGt(p, s),
        light_blue |-> bear /\ RGt(p, f) /\ RLt(p, s),
        red |-> bear /\ RLt(p, f),
        orange |-> bull /\ RLt(p, f) /\ RLt(p, s),
        yellow |-> bull /\ RGt(p, s)]

\* Mutant: green and red take the price on the fast average as well
ZoneFlagsNonStrict(p, f, s) ==
    LET bull == RGt(f, s)
        bear == RLt(f, s)
    IN [bull |-> bull,
        bear |-> bear,
        green |-> bull /\ RLe(f, p),
        blue |-> bear /\ RGt(p, f) /\ RGt(p, s),
        light_blue |-> bear /\ RGt(p, f) /\ RLt(p, s),
        red |-> bear /\ RLe(p, f),
        orange |-> bull /\ RLt(p, f) /\ RLt(p, s),
        yellow |-> bull /\ RLt(p, f) /\ RGt(p, s)]

\* lines 50-59 at one bar: price p, fast average f, slow average s
ZoneFlags(p, f, s) ==
    LET bull == RGt(f, s)
        bear == RLt(f, s)
        above_fast == RGt(p, f)
        below_fast == RLt(p, f)
        above_slow == RGt(p, s)
        below_slow == RLt(p, s)
    IN [bull |-> bull,
        bear |-> bear,
        green |-> bull /\ above_fast,
        blue |-> bear /\ above_fast /\ above_slow,
        light_blue |-> bear /\ above_fast /\ below_slow,
        red |-> bear /\ below_fast,
        orange |-> bull /\ below_fast /\ below_slow,
        yellow |-> bull /\ below_fast /\ above_slow]

RECURSIVE ZonesFrom(_, _, _, _)
\* lines 50-59, bar by bar from bar t: the flags of each bar
ZonesFrom(price, fast_ma, slow_ma, t) ==
    IF t > Len(price) THEN <<>>
    ELSE <<ZoneFlags(price[t], fast_ma[t], slow_ma[t])>>
         \o ZonesFrom(price, fast_ma, slow_ma, t + 1)

RECURSIVE Column(_, _)
Column(rows, flag) ==
    IF rows = <<>> THEN <<>> ELSE <<Head(rows)[flag]>> \o Column(Tail(rows), flag)

\* lines 61-73: the dict of series
IndicatorTable(price, fast_ma, slow_ma, rows) ==
    [price |-> price,
     fast_ma |-> fast_ma,
     slow_ma |-> slow_ma,
     bull |-> Column(rows, "bull"),
     bear |-> Column(rows, "bear"),
     green |-> Column(rows, "green"),
     blue |-> Column(rows, "blue"),
     light_blue |-> Column(rows, "light_blue"),
     red |-> Column(rows, "red"),
     orange |-> Column(rows, "orange"),
     yellow |-> Column(rows, "yellow")]

\* lines 44-48
FastSlow(price, p) ==
    LET fast_ma == Ewm(price, p.fast_period)
        slow_ma == Ewm(price, p.slow_period)
    IN IndicatorTable(price, fast_ma, slow_ma, ZonesFrom(price, fast_ma, slow_ma, 1))

GetIndicators(closes, p) == FastSlow(Ewm(ToFloats(closes), p.smoothing), p)

----
(* CDCActionZoneStrategy.calculate_signals (cdc_actionzone.py:75-180) *)

\* series.shift(1).fillna(False)
Shift1(series) == [t \in 1..Len(series) |-> IF t = 1 THEN FALSE ELSE series[t - 1]]

\* lines 82-83: zone & ~zone.shift(1).fillna(False)
EdgeOf(zone) == [t \in 1..Len(zone) |-> zone[t] /\ ~Shift1(zone)[t]]

\* lines 86-99: forward scan carrying last_true_idx (0 stands for None); the
\* entries are floats, float("inf") while the condition was never true
RECURSIVE BarsSinceFrom(_, _, _)
BarsSinceFrom(cond, n, last_true_idx) ==
    IF n > Len(cond) THEN <<>>
    ELSE IF cond[n] THEN <<Zero>> \o BarsSinceFrom(cond, n + 1, n)
    ELSE IF last_true_idx # 0
         THEN <<RInt(n - last_true_idx)>> \o BarsSinceFrom(cond, n + 1, last_true_idx)
    ELSE <<PosInf>> \o BarsSinceFrom(cond, n + 1, last_true_idx)

bars_since(cond) == BarsSinceFrom(cond, 1, 0)

\* Mutant: the comparison of the two counts is not strict
SeriesLe(a, b) == [t \in 1..Len(a) |-> RLe(a[t], b[t])]

\* lines 105-106
SeriesLt(a, b) == [t \in 1..Len(a) |-> RLt(a[t], b[t])]

Bullish(buycond, sellcond) == SeriesLt(bars_since(buycond), bars_since(sellcond))
Bearish(buycond, sellcond) == SeriesLt(bars_since(sellcond), bars_since(buycond))

\* Mutant: the trend of the bar itself, not of the bar before
BuySeriesNoShift(trend, buycond) == [t \in 1..Len(buycond) |-> trend[t] /\ buycond[t]]

\* Mutant: every buy edge is a BUY, whatever the trend
BuySeriesNoTrend(trend, buycond) == buycond

\* line 109: bearish.shift(1).fillna(False) & buycond
BuySeries(trend, buycond) ==
    [t \in 1..Len(buycond) |-> Shift1(trend)[t] /\ buycond[t]]

\* A SELL at every sell edge, whatever the trend before it
SellSeriesNoTrend(trend, sellcond) == sellcond

\* line 110: bullish.shift(1).fillna(False) & sellcond
SellSeries(trend, sellcond) ==
    [t \in 1..Len(sellcond) |-> Shift1(trend)[t] /\ sellcond[t]]

\* Mutant: the SELL branch is an `if`, not an `elif`, and tests `buy | sell`
EmitAtBothBranches(t) ==
    (IF buy[t] THEN <<BuySignal(t, RInt(bars[t]), cfg)>> ELSE <<>>)
    \o (IF buy[t] \/ sell[t] THEN <<SellSignal(t, RInt(bars[t]))>> ELSE <<>>)

\* lines 118-171: what the loop body appends at bar t
EmitAt(t) ==
    IF buy[t] THEN <<BuySignal(t, RInt(bars[t]), cfg)>>
    ELSE IF sell[t] THEN <<SellSignal(t, RInt(bars[t]))>>
    ELSE <<>>

\* Mutant: the list is kept from one call to the next (an attribute, not a local)
SignalsKept(left_over) == left_over

\* line 79: `signals = []`, a new local list at every call
SignalsAtEntry(left_over) == <<>>

\* lines 77-110
CalcStart ==
    /\ pc = "calculate"
    /\ LET indicators == GetIndicators(bars, params)
           buycond == EdgeOf(indicators.green)
           sellcond == EdgeOf(indicators.red)
       IN /\ ind' = indicators
          /\ bullish' = Bullish(buycond, sellcond)
          /\ bearish' = Bearish(buycond, sellcond)
          /\ buy' = BuySeries(Bearish(buycond, sellcond), buycond)
          /\ sell' = SellSeries(Bullish(buycond, sellcond), sellcond)
    /\ signals' = SignalsAtEntry(signals)
    /\ i' = 1
    /\ pc' = "emit"
    /\ UNCHANGED <<liveVars, runVars, reportVars, bars, cfg, params, j, current_cash, current_position, before, current_price,
                   equity, log>>

\* lines 113-115: `if i == 0: continue`
CalcSkipFirst ==
    /\ pc = "emit"
    /\ i <= Len(bars)
    /\ i = 1
    /\ i' = i + 1
    /\ UNCHANGED <<liveVars, runVars, reportVars, bars, cfg, params, signals, pc, j, current_cash, current_position, before,
                   current_price, equity, log, calcVars>>

\* lines 117-171
CalcEmit ==
    /\ pc = "emit"
    /\ i <= Len(bars)
    /\ i # 1
    /\ signals' = signals \o EmitAt(i)
    /\ i' = i + 1
    /\ UNCHANGED <<liveVars, runVars, reportVars, bars, cfg, params, pc, j, current_cash, current_position, before,
                   current_price, equity, log, calcVars>>

\* line 180
CalcReturn ==
    /\ pc = "emit"
    /\ i > Len(bars)
    /\ pc' = "done"
    /\ UNCHANGED <<liveVars, runVars, reportVars, bars, cfg, params, signals, simVars, calcVars>>

----
(* The inputs of the signal generator *)

Closes == {1, 2, 4}

ParamChoices ==
    {[fast_period |-> 2, slow_period |-> 3, smoothing |-> 1],
     [fast_period |-> 2, slow_period |-> 4, smoothing |-> 1],
     [fast_period |-> 3, slow_period |-> 2, smoothing |-> 2]}

InitSignals ==
    /\ bars \in BarSeries(Closes, MaxBars)
    /\ cfg = [cash |-> RInt(100), max_position_size |-> Half]
    /\ params \in ParamChoices
    /\ signals = <<>>
    /\ pc = "calculate"
    /\ i = 0
    /\ j = 0
    /\ current_cash = Zero
    /\ current_position = Zero
    /\ current_price = Zero
    /\ equity = <<>>
    /\ log = <<>>
    /\ before = Snapshot(Zero, Zero, <<>>)
    /\ NotLive
    /\ ind = NoIndicators
    /\ buy = <<>>
    /\ sell = <<>>
    /\ bullish = <<>>
    /\ bearish = <<>>
    /\ NotRunning
    /\ NotReporting

NextSignals ==
    \/ CalcStart
    \/ CalcSkipFirst
    \/ CalcEmit
    \/ CalcReturn

SpecSignals == InitSignals /\ [][NextSignals]_vars

----
(* BaseStrategy.run_backtest (app/core/strategy.py:40-94), called twice on one *)
(* CDCActionZoneStrategy instance                                            *)

\* lines 56-58
TotalReturn(equity_curve) ==
    FDiv(FSub(equity_curve[Len(equity_curve)], equity_curve[1]), equity_curve[1])

CountSide(sigs, side) == Cardinality({k \in 1..Len(sigs) : sigs[k].side = side})

\* Mutant: SELL signals over all signals
WinRateOfSells(sigs) ==
    IF Len(sigs) > 0 THEN FDiv(RInt(CountSide(sigs, SELL)), RInt(Len(sigs))) ELSE Zero

\* lines 70-73: BUY signals over all signals
WinRate(sigs) ==
    IF Len(sigs) > 0 THEN FDiv(RInt(CountSide(sigs, BUY)), RInt(Len(sigs))) ELSE Zero

\* line 59 (and backtest_report.py:157): equity_curve.pct_change().dropna()
Returns(curve) ==
    LET pct(t) == FSub(FDiv(curve[t], curve[t - 1]), One)
    IN SelectSeq([t \in 1..(Len(curve) - 1) |-> pct(t + 1)], LAMBDA r : ~IsNaN(r))

\* Series.sum(), left to right
RECURSIVE SeriesSumTo(_, _)
SeriesSumTo(series, n) ==
    IF n = 0 THEN Zero ELSE FAdd(SeriesSumTo(series, n - 1), series[n])

\* Series.mean(): NaN for an empty series
SeriesMean(series) ==
    IF Len(series) = 0 THEN NaN
    ELSE FDiv(SeriesSumTo(series, Len(series)), RInt(Len(series)))

\* A finite float that is not 0 and whose magnitude the model does not compute
\* (a quotient by a standard deviation, a square root): only its sign is kept
SomePositive == <<1, -1>>
SomeNegative == <<-1, -1>>

\* Series.std() (ddof = 1), the root of the mean squared deviation from the mean:
\* NaN for fewer than two values or a value that is not finite, 0 when every
\* value equals the mean as computed, positive otherwise
SeriesStd(series) ==
    IF Len(series) < 2 \/ \E t \in 1..Len(series) : ~IsFinite(series[t]) THEN NaN
    ELSE IF \A t \in 1..Len(series) : FSub(SeriesMean(series), series[t]) = Zero
         THEN Zero
    ELSE SomePositive

\* 252 trading days a year
TradingDays == 252

\* mean / std * (252**0.5), std being NaN, 0 or positive
MeanOverStd(mean, std) ==
    IF IsNaN(std) \/ IsNaN(mean) THEN NaN
    ELSE IF std = Zero THEN RDiv(mean, Zero)
    ELSE IF mean = Zero THEN Zero
    ELSE IF RGt(mean, Zero) THEN SomePositive ELSE SomeNegative

\* Mutant: the guard is dropped and the quotient mean / std is always taken
SharpeRatioUnguarded(returns) == MeanOverStd(SeriesMean(returns), SeriesStd(returns))

\* lines 60-62: mean / std * sqrt(252) if std > 0 (FALSE for NaN), else 0
SharpeRatio(returns) ==
    IF SeriesStd(returns) = SomePositive
    THEN MeanOverStd(SeriesMean(returns), SeriesStd(returns))
    ELSE Zero

\* line 65: (1 + returns).cumprod()
RECURSIVE CumProdTo(_, _)
CumProdTo(returns, n) ==
    IF n = 1 THEN FAdd(One, returns[1])
    ELSE FMul(CumProdTo(returns, n - 1), FAdd(One, returns[n]))

Cumulative(returns) == [t \in 1..Len(returns) |-> CumProdTo(returns, t)]

\* The larger and the smaller of two floats as pandas' max and min take them: a
\* NaN is skipped
FMax(a, b) == IF IsNaN(a) THEN b ELSE IF IsNaN(b) THEN a ELSE IF RLt(a, b) THEN b ELSE a
FMin(a, b) == IF IsNaN(a) THEN b ELSE IF IsNaN(b) THEN a ELSE IF RLt(b, a) THEN b ELSE a

\* series.expanding().max()
RECURSIVE RunningMaxAt(_, _)
RunningMaxAt(series, n) ==
    IF n = 1 THEN series[1] ELSE FMax(RunningMaxAt(series, n - 1), series[n])

\* Mutant: the decline is measured from the first value, not from the peak
DrawdownFromFirst(series, t) == FDiv(FSub(series[t], series[1]), series[1])

\* lines 66-67 (and backtest_report.py:87-88): (series - running_max) / running_max
DrawdownAt(series, t) ==
    FDiv(FSub(series[t], RunningMaxAt(series, t)), RunningMaxAt(series, t))

DrawdownSeries(series) == [t \in 1..Len(series) |-> DrawdownAt(series, t)]

\* Series.min(): NaN for an empty series
RECURSIVE SeriesMinTo(_, _)
SeriesMinTo(series, n) ==
    IF n = 0 THEN NaN ELSE FMin(SeriesMinTo(series, n - 1), series[n])

\* lines 65-68
MaxDrawdown(returns) ==
    LET drawdown == DrawdownSeries(Cumulative(returns))
    IN SeriesMinTo(drawdown, Len(drawdown))

\* lines 56-68: the metrics of the equity curve
CurveMetrics(equity_curve) ==
    [total_return |-> TotalReturn(equity_curve),
     sharpe_ratio |-> SharpeRatio(Returns(equity_curve)),
     max_drawdown |-> MaxDrawdown(Returns(equity_curve))]

\* lines 75-83
StrategyResultOf(sigs, equity_curve, metrics) ==
    [total_return |-> metrics.total_return,
     sharpe_ratio |-> metrics.sharpe_ratio,
     max_drawdown |-> metrics.max_drawdown,
     win_rate |-> WinRate(sigs),
     total_trades |-> Len(sigs),
     signals |-> sigs,
     equity_curve |-> equity_curve]

StrategyResult(sigs, equity_curve) ==
    StrategyResultOf(sigs, equity_curve, CurveMetrics(equity_curve))

\* lines 40-50: the call, up to the call of calculate_signals
BtCall ==
    /\ \/ stage = "idle"
       \/ stage = "returned" /\ previous = NoResult
    /\ previous' = result
    /\ stage' = "signals"
    /\ pc' = "calculate"
    /\ UNCHANGED <<liveVars, result, instance, reportVars, bars, cfg, params, signals, simVars,
                   calcVars>>

\* line 53: calculate_signals has returned, _simulate_trading is called
BtSimulate ==
    /\ stage = "signals"
    /\ pc = "done"
    /\ stage' = "simulation"
    /\ pc' = "simulate"
    /\ UNCHANGED <<liveVars, result, previous, instance, reportVars, bars, cfg, params, signals,
                   simVars, calcVars>>

\* lines 56-94: _simulate_trading has returned
BtReturn ==
    /\ stage = "simulation"
    /\ pc = "done"
    /\ result' = StrategyResult(signals, equity)
    /\ stage' = "returned"
    /\ pc' = "returned"
    /\ UNCHANGED <<liveVars, previous, instance, reportVars, bars, cfg, params, signals, simVars,
                   calcVars>>

InitBacktest ==
    /\ bars \in BarSeries(Closes, MaxRunBars)
    /\ cfg = [cash |-> RInt(100), max_position_size |-> Half]
    /\ params \in ParamChoices
    /\ signals = <<>>
    /\ pc = "idle"
    /\ i = 0
    /\ j = 0
    /\ current_cash = Zero
    /\ current_position = Zero
    /\ current_price = Zero
    /\ equity = <<>>
    /\ log = <<>>
    /\ before = Snapshot(Zero, Zero, <<>>)
    /\ NotLive
    /\ ind = NoIndicators
    /\ buy = <<>>
    /\ sell = <<>>
    /\ bullish = <<>>
    /\ bearish = <<>>
    /\ NotRunning
    /\ NotReporting

NextBacktest ==
    \/ BtCall
    \/ CalcStart
    \/ CalcSkipFirst
    \/ CalcEmit
    \/ CalcReturn
    \/ BtSimulate
    \/ SimStart
    \/ SimRaise
    \/ SimBar
    \/ SimOtherBar
    \/ SimBuy
    \/ SimSell
    \/ SimIgnore
    \/ SimRecord
    \/ SimReturn
    \/ BtReturn

SpecBacktest == InitBacktest /\ [][NextBacktest]_vars

----
(* BacktestReport (app/core/backtest_report.py): __init__ runs _analyze_trades *)
(* over result.signals; generate_summary reads the trades it left.  A dict is  *)
(* a record, a missing key a missing field; timestamps are day numbers.       *)

\* None, for a float and for a timestamp (days are counted from 1)
None == <<>>
NoTime == 0

\* Mutant: a BUY while a trade is open leaves the open trade as it is
OpenedTradeKeepFirst(signal, current) ==
    IF current # NoTrade THEN current
    ELSE [entry_time |-> signal.timestamp,
          entry_price |-> signal.price,
          quantity |-> signal.quantity,
          exit_time |-> NoTime,
          exit_price |-> None,
          profit_loss |-> None,
          profit_loss_pct |-> None,
          duration_days |-> None]

\* lines 32-45: a BUY always starts a new dict, whatever `current` holds
OpenedTrade(signal, current) ==
    [entry_time |-> signal.timestamp,
     entry_price |-> signal.price,
     quantity |-> signal.quantity,
     exit_time |-> NoTime,
     exit_price |-> None,
     profit_loss |-> None,
     profit_loss_pct |-> None,
     duration_days |-> None]

\* lines 53-58
EntryValue(trade) == FMul(trade.entry_price, trade.quantity)
ExitValue(trade, signal) == FMul(signal.price, trade.quantity)

\* Mutant: the SELL leaves the exit fields unset
ClosedTradeNoExit(trade, signal) == trade

\* lines 48-66
ClosedTrade(trade, signal) ==
    LET profit_loss == FSub(ExitValue(trade, signal), EntryValue(trade))
    IN [trade EXCEPT !.exit_time = signal.timestamp,
                     !.exit_price = signal.price,
                     !.profit_loss = profit_loss,
                     !.profit_loss_pct = FMul(FDiv(profit_loss, EntryValue(trade)), RInt(100)),
                     !.duration_days = RInt(signal.timestamp - trade.entry_time)]

\* Mutant: the trailing trade is appended without a status
MarkedOpenNoStatus(trade) == trade

\* lines 71-74: the key "status" exists on this dict only
MarkedOpen(trade) ==
    [k \in DOMAIN trade \cup {"status"} |-> IF k = "status" THEN "OPEN" ELSE trade[k]]

\* lines 32-45
AnalyzeBuy ==
    /\ pc = "analyze"
    /\ j <= Len(result.signals)
    /\ result.signals[j].side = BUY
    /\ open_trade' = OpenedTrade(result.signals[j], open_trade)
    /\ j' = j + 1
    /\ UNCHANGED <<liveVars, runVars, trades, summary, ddVars, bars, cfg, params, signals, pc, i,
                   current_cash, current_position, before, current_price, equity, log, calcVars>>

\* lines 46-69; float division by a zero entry value raises ZeroDivisionError
AnalyzeSell ==
    /\ pc = "analyze"
    /\ j <= Len(result.signals)
    /\ result.signals[j].side = SELL
    /\ open_trade # NoTrade
    /\ IF EntryValue(open_trade) = Zero
       THEN /\ pc' = "raised"
            /\ UNCHANGED <<trades, open_trade, j>>
       ELSE /\ trades' = Append(trades, ClosedTrade(open_trade, result.signals[j]))
            /\ open_trade' = NoTrade
            /\ j' = j + 1
            /\ pc' = pc
    /\ UNCHANGED <<liveVars, runVars, summary, ddVars, bars, cfg, params, signals, i, current_cash,
                   current_position, before, current_price, equity, log, calcVars>>

\* line 46 false: a SELL with no trade open is passed over
AnalyzeSkip ==
    /\ pc = "analyze"
    /\ j <= Len(result.signals)
    /\ result.signals[j].side = SELL
    /\ open_trade = NoTrade
    /\ j' = j + 1
    /\ UNCHANGED <<liveVars, runVars, reportVars, bars, cfg, params, signals, pc, i, current_cash,
                   current_position, before, current_price, equity, log, calcVars>>

\* lines 71-76
AnalyzeEnd ==
    /\ pc = "analyze"
    /\ j > Len(result.signals)
    /\ trades' = IF open_trade # NoTrade THEN Append(trades, MarkedOpen(open_trade))
                 ELSE trades
    /\ pc' = "periods"
    /\ UNCHANGED <<liveVars, runVars, open_trade, summary, ddVars, bars, cfg, params, signals, i, j,
                   current_cash, current_position, before, current_price, equity, log, calcVars>>

\* _calculate_drawdown_periods (lines 84-118), called by __init__ (line 24) after
\* _analyze_trades; _calculate_monthly_returns (line 23) is left out.

\* lines 86-88: the drawdown of the equity curve itself, at the bar of the loop
dd == DrawdownAt(result.equity_curve, i)

\* line 95: the loop has a bar left
MoreBars == i <= Len(result.equity_curve)

\* Mutant: a period is appended without its minimum, with the drawdown 0
PeriodFlat(scan, date) ==
    [start_date |-> scan.start_date, end_date |-> date, max_drawdown |-> Zero,
     duration_days |-> date - scan.start_date]

\* lines 107-114: the dict appended when a drawdown ends
Period(scan, date) ==
    [start_date |-> scan.start_date, end_date |-> date,
     max_drawdown |-> scan.max_drawdown, duration_days |-> date - scan.start_date]

\* lines 86-93
DrawdownStart ==
    /\ pc = "periods"
    /\ drawdown_periods' = <<>>
    /\ dd_scan' = NoDrawdown
    /\ i' = 1
    /\ pc' = "drawdown"
    /\ UNCHANGED <<liveVars, runVars, trades, open_trade, summary, bars, cfg, params, signals, j,
                   current_cash, current_position, before, current_price, equity, log,
                   calcVars>>

\* lines 96-100: dd < 0 and not in_drawdown
DrawdownOpen ==
    /\ pc = "drawdown"
    /\ MoreBars
    /\ RLt(dd, Zero)
    /\ ~dd_scan.in_drawdown
    /\ dd_scan' = [in_drawdown |-> TRUE, start_date |-> i, max_drawdown |-> dd]
    /\ i' = i + 1
    /\ UNCHANGED <<liveVars, runVars, trades, open_trade, summary, drawdown_periods, bars, cfg, params,
                   signals, pc, j, current_cash, current_position, before, current_price,
                   equity, log, calcVars>>

\* lines 101-104: dd < 0 and in_drawdown
DrawdownContinue ==
    /\ pc = "drawdown"
    /\ MoreBars
    /\ RLt(dd, Zero)
    /\ dd_scan.in_drawdown
    /\ dd_scan' = [dd_scan EXCEPT !.max_drawdown =
                      IF RLt(dd, @) THEN dd ELSE @]
    /\ i' = i + 1
    /\ UNCHANGED <<liveVars, runVars, trades, open_trade, summary, drawdown_periods, bars, cfg, params,
                   signals, pc, j, current_cash, current_position, before, current_price,
                   equity, log, calcVars>>

\* lines 105-116: dd >= 0 and in_drawdown
DrawdownClose ==
    /\ pc = "drawdown"
    /\ MoreBars
    /\ ~RLt(dd, Zero)
    /\ RLe(Zero, dd)
    /\ dd_scan.in_drawdown
    /\ drawdown_periods' = Append(drawdown_periods, Period(dd_scan, i))
    /\ dd_scan' = [dd_scan EXCEPT !.in_drawdown = FALSE, !.max_drawdown = Zero]
    /\ i' = i + 1
    /\ UNCHANGED <<liveVars, runVars, trades, open_trade, summary, bars, cfg, params, signals, pc, j,
                   current_cash, current_position, before, current_price, equity, log,
                   calcVars>>

\* No branch is taken: dd >= 0 outside a drawdown, or dd is NaN
DrawdownPass ==
    /\ pc = "drawdown"
    /\ MoreBars
    /\ ~RLt(dd, Zero)
    /\ ~(RLe(Zero, dd) /\ dd_scan.in_drawdown)
    /\ i' = i + 1
    /\ UNCHANGED <<liveVars, runVars, reportVars, bars, cfg, params, signals, pc, j, current_cash,
                   current_position, before, current_price, equity, log, calcVars>>

\* line 118: the list is returned as it stands, whatever in_drawdown is
DrawdownReturn ==
    /\ pc = "drawdown"
    /\ ~MoreBars
    /\ pc' = "analyzed"
    /\ UNCHANGED <<liveVars, runVars, reportVars, bars, cfg, params, signals, simVars, calcVars>>

\* line 123: t.get("exit_time") is not None
ClosedTrades(ts) == SelectSeq(ts, LAMBDA t : t.exit_time # NoTime)

\* line 124: t.get("status") == "OPEN"
OpenTrades(ts) == SelectSeq(ts, LAMBDA t : "status" \in DOMAIN t /\ t.status = "OPEN")

\* Mutant: a trade that made nothing is left out of the losses
LosingTradesStrict(closed) == SelectSeq(closed, LAMBDA t : RLt(t.profit_loss, Zero))

\* lines 128-129
WinningTrades(closed) == SelectSeq(closed, LAMBDA t : RGt(t.profit_loss, Zero))
LosingTrades(closed) == SelectSeq(closed, LAMBDA t : RLe(t.profit_loss, Zero))

\* sum(t[field] for t in ts): left to right from the int 0
RECURSIVE SumFrom(_, _, _)
SumFrom(ts, field, acc) ==
    IF ts = <<>> THEN acc ELSE SumFrom(Tail(ts), field, FAdd(acc, Head(ts)[field]))

SumOf(ts, field) == SumFrom(ts, field, Zero)

\* max(ts, key=profit_loss) / min(...): the first element, replaced by a later one
\* that compares greater / less
RECURSIVE BestFrom(_, _)
BestFrom(ts, best) ==
    IF ts = <<>> THEN best
    ELSE BestFrom(Tail(ts), IF RGt(Head(ts).profit_loss, best.profit_loss)
                            THEN Head(ts) ELSE best)

RECURSIVE WorstFrom(_, _)
WorstFrom(ts, worst) ==
    IF ts = <<>> THEN worst
    ELSE WorstFrom(Tail(ts), IF RLt(Head(ts).profit_loss, worst.profit_loss)
                             THEN Head(ts) ELSE worst)

BestTrade(closed) == BestFrom(Tail(closed), Head(closed))
WorstTrade(closed) == WorstFrom(Tail(closed), Head(closed))

\* lines 131-140: the mean of profit_loss, 0 for an empty list
MeanProfitLoss(ts) ==
    IF ts # <<>> THEN FDiv(SumOf(ts, "profit_loss"), RInt(Len(ts))) ELSE Zero

FAbs(x) == IF IsNaN(x) THEN x ELSE <<Abs(x[1]), x[2]>>

\* The outcome of a Python float division by zero: an exception, not a value
ZeroDivisionError == <<0, -1>>

\* a / b on Python floats
PyDiv(a, b) == IF b = Zero THEN ZeroDivisionError ELSE FDiv(a, b)

\* Mutant: no losing trade gives a profit factor of 0
ProfitFactorZero(avg_win, avg_loss) ==
    IF avg_loss # Zero THEN FAbs(PyDiv(avg_win, avg_loss)) ELSE Zero

\* Mutant: the division is not guarded
ProfitFactorUnguarded(avg_win, avg_loss) == FAbs(PyDiv(avg_win, avg_loss))

\* lines 169-171
ProfitFactor(avg_win, avg_loss) ==
    IF avg_loss # Zero THEN FAbs(PyDiv(avg_win, avg_loss)) ELSE PosInf

\* line 158: returns.std() * (252**0.5): NaN, 0 or positive as std is
Volatility(returns) == SeriesStd(returns)

\* lines 122-208; best_trade and worst_trade are dicts or None (NoTrade); var_95,
\* cvar_95, calmar_ratio and the monthly returns are left out
Summary(res, ts, periods) ==
    LET closed == ClosedTrades(ts)
        open == OpenTrades(ts)
        winning == IF closed # <<>> THEN WinningTrades(closed) ELSE <<>>
        losing == IF closed # <<>> THEN LosingTrades(closed) ELSE <<>>
        avg_win == MeanProfitLoss(winning)
        avg_loss == MeanProfitLoss(losing)
    IN [total_return |-> res.total_return,
        annualized_return |->
            FMul(res.total_return,
                 FDiv(RInt(TradingDays), RInt(Len(Returns(res.equity_curve))))),
        sharpe_ratio |-> res.sharpe_ratio,
        max_drawdown |-> res.max_drawdown,
        volatility |-> Volatility(Returns(res.equity_curve)),
        drawdown_periods |-> periods,
        win_rate |-> res.win_rate,
        profit_factor |-> ProfitFactor(avg_win, avg_loss),
        total_trades |-> Len(closed),
        winning_trades |-> Len(winning),
        losing_trades |-> Len(losing),
        open_trades |-> Len(open),
        avg_win |-> avg_win,
        avg_loss |-> avg_loss,
        max_win |-> IF closed # <<>> THEN BestTrade(closed).profit_loss ELSE Zero,
        max_loss |-> IF closed # <<>> THEN WorstTrade(closed).profit_loss ELSE Zero,
        avg_duration_days |->
            IF closed # <<>>
            THEN FDiv(SumOf(closed, "duration_days"), RInt(Len(closed))) ELSE Zero,
        best_trade |-> IF closed # <<>> THEN BestTrade(closed) ELSE NoTrade,
        worst_trade |-> IF closed # <<>> THEN WorstTrade(closed) ELSE NoTrade,
        trades |-> ts]

\* lines 120-210; 252 / len(returns) at line 165 raises ZeroDivisionError when the
\* curve has no return
GenerateSummary ==
    /\ pc = "analyzed"
    /\ IF Len(Returns(result.equity_curve)) = 0
       THEN /\ pc' = "raised"
            /\ UNCHANGED summary
       ELSE /\ summary' = Summary(result, trades, drawdown_periods)
            /\ pc' = "summarized"
    /\ UNCHANGED <<liveVars, runVars, trades, open_trade, ddVars, bars, cfg, params, signals, simVars,
                   calcVars>>

\* The StrategyResult objects given to BacktestReport: any signal list, one
\* signal per day, BUY quantities as calculate_signals sets them
ReportPrices == {0, 1, 3}

ReportConfig == [cash |-> RInt(100), max_position_size |-> Half]

ReportSignalLists ==
    LET choice == {BUY, SELL} \X ReportPrices
        lists == UNION {[1..n -> choice] : n \in 0..MaxReportSignals}
        mk(k, c) == IF c[1] = BUY THEN BuySignal(k, RInt(c[2]), ReportConfig)
                    ELSE SellSignal(k, RInt(c[2]))
    IN {[k \in 1..Len(l) |-> mk(k, l[k])] : l \in lists}

\* A one-bar curve, a two-bar curve and a curve with a drawdown of two bars
ReportCurves ==
    {<<ReportConfig.cash>>,
     <<ReportConfig.cash, RInt(200)>>,
     <<ReportConfig.cash, RInt(50), RInt(50), RInt(200)>>}

InitReportOf(signal_lists, curves) ==
    /\ \E run \in {<<curve, CurveMetrics(curve)>> : curve \in curves} :
          \E sigs \in signal_lists : result = StrategyResultOf(sigs, run[1], run[2])
    /\ stage = "returned"
    /\ previous = NoResult
    /\ instance = NewInstance
    /\ bars = <<>>
    /\ cfg = ReportConfig
    /\ params = UnusedParams
    /\ signals = <<>>
    /\ pc = "analyze"
    /\ i = 0
    /\ j = 1
    /\ current_cash = Zero
    /\ current_position = Zero
    /\ current_price = Zero
    /\ equity = <<>>
    /\ log = <<>>
    /\ before = Snapshot(Zero, Zero, <<>>)
    /\ NotLive
    /\ ind = NoIndicators
    /\ buy = <<>>
    /\ sell = <<>>
    /\ bullish = <<>>
    /\ bearish = <<>>
    /\ NotReporting

NextReport ==
    \/ AnalyzeBuy
    \/ AnalyzeSell
    \/ AnalyzeSkip
    \/ AnalyzeEnd
    \/ DrawdownStart
    \/ DrawdownOpen
    \/ DrawdownContinue
    \/ DrawdownClose
    \/ DrawdownPass
    \/ DrawdownReturn
    \/ GenerateSummary

InitReport == InitReportOf(ReportSignalLists, ReportCurves)

SpecReport == InitReport /\ [][NextReport]_vars

----
(* BacktestReport on a StrategyResult without signals and with any positive *)
(* equity curve                                                           *)

\* Equity values: a peak and declines to a half and a quarter of it
CurveValues == {50, 100, 200}

\* A fall so deep that the return rounds to -1 (in doubles: below 2^-54 of the
\* value before)
CollapseCurves == {<<RInt(200), One>>, <<RInt(200), One, RInt(200)>>}

Curves ==
    UNION {[1..n -> {RInt(v) : v \in CurveValues}] : n \in 1..MaxCurveLen}
        \cup CollapseCurves

InitDrawdown == InitReportOf({<<>>}, Curves)

NextDrawdown ==
    \/ AnalyzeEnd
    \/ DrawdownStart
    \/ DrawdownOpen
    \/ DrawdownContinue
    \/ DrawdownClose
    \/ DrawdownPass
    \/ DrawdownReturn
    \/ GenerateSummary

SpecDrawdown == InitDrawdown /\ [][NextDrawdown]_vars

----
(* run_backtest on a new instance, then BacktestReport on its result and *)
(* generate_summary                                                      *)

\* backtest_report.py:15-21: BacktestReport(result, initial_cash) on the result
\* run_backtest returned; _analyze_trades begins with no trade
ReportStart ==
    /\ stage = "returned"
    /\ pc = "returned"
    /\ trades' = <<>>
    /\ open_trade' = NoTrade
    /\ j' = 1
    /\ pc' = "analyze"
    /\ UNCHANGED <<liveVars, runVars, summary, ddVars, bars, cfg, params, signals, i, current_cash,
                   current_position, before, current_price, equity, log, calcVars>>

PipelineParams == [fast_period |-> 2, slow_period |-> 3, smoothing |-> 1]

\* Positive closes, one of them no power of two: a quotient by it is rounded
PipelineCloses == {1, 2, 3}

\* Valid configurations: cash > 0, max_position_size in (0, 1], 1 included
PipelineConfigs == {[cash |-> RInt(100), max_position_size |-> m] : m \in {Half, One}}

\* run_backtest has been called on a new instance (BtCall)
InitPipeline ==
    /\ bars \in BarSeries(PipelineCloses, MaxPipelineBars)
    /\ cfg \in PipelineConfigs
    /\ params = PipelineParams
    /\ signals = <<>>
    /\ pc = "calculate"
    /\ i = 0
    /\ j = 0
    /\ current_cash = Zero
    /\ current_position = Zero
    /\ current_price = Zero
    /\ equity = <<>>
    /\ log = <<>>
    /\ before = Snapshot(Zero, Zero, <<>>)
    /\ NotLive
    /\ ind = NoIndicators
    /\ buy = <<>>
    /\ sell = <<>>
    /\ bullish = <<>>
    /\ bearish = <<>>
    /\ stage = "signals"
    /\ result = NoResult
    /\ previous = NoResult
    /\ instance = NewInstance
    /\ NotReporting

NextPipeline ==
    \/ CalcStart
    \/ CalcSkipFirst
    \/ CalcEmit
    \/ CalcReturn
    \/ BtSimulate
    \/ SimStart
    \/ SimRaise
    \/ SimBar
    \/ SimOtherBar
    \/ SimBuy
    \/ SimSell
    \/ SimIgnore
    \/ SimRecord
    \/ SimReturn
    \/ BtReturn
    \/ ReportStart
    \/ AnalyzeBuy
    \/ AnalyzeSell
    \/ AnalyzeSkip
    \/ AnalyzeEnd
    \/ DrawdownStart
    \/ DrawdownOpen
    \/ DrawdownContinue
    \/ DrawdownClose
    \/ DrawdownPass
    \/ DrawdownReturn
    \/ GenerateSummary

SpecPipeline == InitPipeline /\ [][NextPipeline]_vars

----
(* The zone flags of get_indicators on arbitrary (price, fast MA, slow MA) *)

\* A defined value, the same one, a larger one, inf and NaN
ZoneValues == {One, ThreeHalves, RInt(2), PosInf, NaN}

\* lines 50-73 on the three series already computed (ind holds them)
ZonesCompute ==
    /\ pc = "zones"
    /\ ind' = IndicatorTable(ind.price, ind.fast_ma, ind.slow_ma,
                             ZonesFrom(ind.price, ind.fast_ma, ind.slow_ma, 1))
    /\ pc' = "done"
    /\ UNCHANGED <<liveVars, runVars, reportVars, bars, cfg, params, signals, simVars, bullish, bearish, buy, sell>>

InitZones ==
    /\ \E p \in ZoneValues, f \in ZoneValues, s \in ZoneValues :
          ind = IndicatorTable(<<p>>, <<f>>, <<s>>, <<>>)
    /\ bars = <<>>
    /\ cfg = [cash |-> RInt(100), max_position_size |-> Half]
    /\ params = UnusedParams
    /\ signals = <<>>
    /\ pc = "zones"
    /\ i = 0
    /\ j = 0
    /\ current_cash = Zero
    /\ current_position = Zero
    /\ current_price = Zero
    /\ equity = <<>>
    /\ log = <<>>
    /\ before = Snapshot(Zero, Zero, <<>>)
    /\ NotLive
    /\ buy = <<>>
    /\ sell = <<>>
    /\ bullish = <<>>
    /\ bearish = <<>>
    /\ NotRunning
    /\ NotReporting

NextZones == ZonesCompute

SpecZones == InitZones /\ [][NextZones]_vars

----
(* Claims about the simulator, checked under SpecSim *)

\* The inner loop is at signal j, which belongs to the bar being processed
AtSignalOfBar == pc = "signals" /\ j <= Len(signals) /\ signals[j].timestamp = i

\* The step appends an execution record of the given kind to the log
Logs(event) == Len(log') = Len(log) + 1 /\ log'[Len(log')].event = event

IsLong == RGt(current_position, Zero)
IsFlat == current_position = Zero

\* C1: a BUY signal processed while LONG and a SELL signal processed while FLAT
\* leave cash and position exactly as they were (positions are never stacked).
C1_IgnoredSignals ==
    [][(/\ AtSignalOfBar
        /\ \/ signals[j].side = BUY /\ IsLong
           \/ signals[j].side = SELL /\ IsFlat)
       => /\ current_cash' = current_cash
          /\ current_position' = current_position
          /\ j' = j + 1]_vars

\* A SELL while flat, then an executed BUY, then a BUY while long: one execution only
C1_Witness ==
    /\ pc = "signals" /\ j = 4
    /\ signals[1].side = SELL /\ signals[2].side = BUY /\ signals[3].side = BUY
    /\ \A k \in 1..3 : signals[k].timestamp = i
    /\ Len(log) = 1
    /\ IsLong

\* C2: cash is never negative, and a BUY whose cost exceeds the available cash
\* changes neither cash nor position.
C2_CashNeverNegative ==
    /\ [](RLe(Zero, current_cash))
    /\ [][(/\ AtSignalOfBar
           /\ signals[j].side = BUY
           /\ RGt(FMul(FDiv(FMul(current_cash, cfg.max_position_size), RInt(bars[i])),
                       RInt(bars[i])),
                  current_cash))
          => /\ current_cash' = current_cash
             /\ current_position' = current_position]_vars

\* An unaffordable BUY (max_position_size 3/2) was just skipped
C2_Witness ==
    /\ pc = "signals" /\ j = 2
    /\ signals[1].side = BUY /\ signals[1].timestamp = i
    /\ cfg.max_position_size = ThreeHalves
    /\ bars[i] > 0
    /\ log = <<>>
    /\ current_cash = cfg.cash
    /\ IsFlat

\* C3 (as claimed): the first entry of the returned equity curve equals the
\* initial cash.
C3_EquityAnchor == pc = "done" => equity[1] = cfg.cash

\* |a - b|, exactly
Distance(a, b) == IF RLt(a, b) THEN RSub(b, a) ELSE RSub(a, b)

BuysAtFirstBar ==
    Cardinality({k \in 1..Len(signals) :
                    signals[k].side = BUY /\ signals[k].timestamp = 1})

\* C3 (what the code guarantees): the first entry equals the initial cash when
\* the list holds no BUY of the first bar; otherwise it is within rounding of it:
\* two units in the last place (each at most cash / 2^(Precision-1)) per BUY of
\* the first bar.
C3_EquityAnchorRounded ==
    pc = "done" =>
        /\ BuysAtFirstBar = 0 => equity[1] = cfg.cash
        /\ RLe(RMul(Distance(equity[1], cfg.cash), RInt(Pow2(Precision - 1))),
               RMul(RInt(2 * BuysAtFirstBar), cfg.cash))

\* The run executed a BUY at the first bar and the entry is not the initial cash
C3_Witness ==
    /\ pc = "done"
    /\ Len(signals) >= 1
    /\ signals[1].side = BUY /\ signals[1].timestamp = 1
    /\ Len(log) >= 1
    /\ log[1].event = BuyExecuted
    /\ bars[1] = 3
    /\ cfg.max_position_size = Quarter
    /\ equity[1] # cfg.cash

\* C4 (as claimed): every executed BUY acquires the quantity the signal carries
\* (config cash x max_position_size / price) and debits that quantity x price.
C4_SharesAreSignalQuantity ==
    [][Logs(BuyExecuted)
       => /\ current_position' = FAdd(current_position, signals[j].quantity)
          /\ current_cash' = FSub(current_cash,
                                  FMul(signals[j].quantity, signals[j].price))]_vars

\* C4 (amended): every executed BUY acquires current cash x max_position_size /
\* close of the bar and debits that quantity x close; the quantity is the one
\* the signal carries for the first executed BUY of the run.
C4_SharesFromCurrentCash ==
    [][Logs(BuyExecuted)
       => LET close == RInt(bars[i])
              shares == FDiv(FMul(current_cash, cfg.max_position_size), close)
          IN /\ AtSignalOfBar
             /\ signals[j].side = BUY
             /\ current_position' = FAdd(current_position, shares)
             /\ current_cash' = FSub(current_cash, FMul(shares, close))
             /\ (log = <<>> => shares = signals[j].quantity)]_vars

\* A second BUY was executed, with a quantity that is not the signal's
C4_Witness ==
    /\ pc = "signals" /\ j = 4
    /\ Len(log) = 3
    /\ log[1].event = BuyExecuted
    /\ log[3].event = BuyExecuted
    /\ log[3].shares # signals[3].quantity
    /\ current_position = log[3].shares

\* C5: an executed SELL credits cash with the whole held quantity x the close of
\* the bar and leaves position 0.
C5_SellAll ==
    [][(AtSignalOfBar /\ signals[j].side = SELL /\ IsLong)
       => /\ current_cash' = FAdd(current_cash, FMul(current_position, RInt(bars[i])))
          /\ current_position' = Zero
          /\ Logs(SellExecuted)]_vars

\* A position bought at one close was just sold at another
C5_Witness ==
    /\ pc = "signals" /\ j > 1
    /\ signals[j - 1].side = SELL
    /\ Len(log) = 2
    /\ log[2].event = SellExecuted
    /\ log[1].price # log[2].price
    /\ IsFlat
    /\ current_cash # cfg.cash

\* C6: with max_position_size in (0, 1] the position is never negative.
C6_LongOnly ==
    (RGt(cfg.max_position_size, Zero) /\ RLe(cfg.max_position_size, One))
    => RLe(Zero, current_position)

C6_Witness ==
    /\ cfg.max_position_size = One
    /\ IsLong
    /\ current_cash = Zero

\* C7: the equity curve has one entry per bar, written in bar order once all the
\* signals have been passed, and the entry of bar t is cash + position x close[t]
\* of the state the signals of bar t left.
C7_EquityPerBar ==
    /\ [](pc = "done" => /\ Len(equity) = Len(bars)
                         /\ \A t \in 1..Len(bars) : ~IsNaN(equity[t]))
    /\ [][(pc = "signals" /\ j > Len(signals))
          => /\ equity' = [equity EXCEPT
                             ![i] = FAdd(current_cash,
                                         FMul(current_position, RInt(bars[i])))]
             /\ i' = i + 1]_vars
    /\ [][(pc \in {"bar", "signals"} /\ equity' # equity)
          => (pc = "signals" /\ j > Len(signals))]_vars

\* A position held over a change of the close: the two entries differ
C7_Witness ==
    /\ pc = "done"
    /\ Len(bars) = 2
    /\ IsLong
    /\ equity[2] # equity[1]
    /\ equity[2] = FAdd(current_cash, FMul(current_position, RInt(bars[2])))

\* BUY executions among the signals of the bar being scanned
BuysExecutedAtBar ==
    Cardinality({k \in (before.executed + 1)..Len(log) : log[k].event = BuyExecuted})

\* cash + position x close of the bar, of the locals before the bar's signals
EquityBeforeSignals == FAdd(before.cash, FMul(before.position, RInt(bars[i])))

AtRecord == pc = "signals" /\ j > Len(signals)

\* C29 (as claimed): the equity recorded for a bar equals (cash before the bar's
\* signals) + (position before the bar's signals) x close, whatever the signals
\* of the bar did.
C29_EquityUnchangedByExecution ==
    [][AtRecord => equity'[i] = EquityBeforeSignals]_vars

\* C29 (what the code guarantees): the recorded equity equals that value when no
\* BUY of the bar was executed (a SELL moves position x close into cash in one
\* rounded sum, the one the equity takes); each executed BUY of the bar moves it
\* by at most two units in the last place.
C29_EquityUnchangedUpToRounding ==
    [][AtRecord =>
        /\ BuysExecutedAtBar = 0 => equity'[i] = EquityBeforeSignals
        /\ RLe(RMul(Distance(equity'[i], EquityBeforeSignals),
                    RInt(Pow2(Precision - 1))),
               RMul(RInt(2 * BuysExecutedAtBar), EquityBeforeSignals))]_vars

\* The equity of a bar with an executed BUY is about to be recorded and differs
\* from the value before the bar's signals
C29_Witness ==
    /\ AtRecord
    /\ BuysExecutedAtBar = 1
    /\ EquityValue(current_cash, current_position, current_price) # EquityBeforeSignals

\* The equity of a bar with an executed SELL at a changed close is about to be recorded
C29_SellWitness ==
    /\ AtRecord
    /\ i = 2
    /\ bars[1] # bars[2]
    /\ Len(log) = before.executed + 1
    /\ log[Len(log)].event = SellExecuted
    /\ RGt(before.position, Zero)
    /\ EquityValue(current_cash, current_position, current_price) = EquityBeforeSignals

\* C23 (as claimed): simulating an empty bar series does not fail and yields an
\* equity curve of one point, the initial cash.
C23_EmptySeriesSinglePoint ==
    (Len(bars) = 0 /\ pc # "simulate") => (pc = "done" /\ equity = <<cfg.cash>>)

\* C23 (what the code does): on an empty bar series the simulation raises at its
\* first statement (equity.iloc[0] of an empty series) and no curve is returned;
\* on a series with a bar it never raises.
C23_EmptySeriesRaises ==
    /\ Len(bars) = 0 => (pc \in {"simulate", "raised"} /\ equity = <<>>)
    /\ pc = "raised" => Len(bars) = 0

C23_Witness == pc = "raised" /\ bars = <<>> /\ equity = <<>>

ValidConfig(c) ==
    /\ RGt(c.cash, Zero)
    /\ RGt(c.max_position_size, Zero)
    /\ RLe(c.max_position_size, One)

\* C24 (as claimed): with cash <= 0 or max_position_size outside (0, 1] the run is
\* rejected before anything is computed: no equity value, no execution, no result.
C24_InvalidConfigRejected ==
    ~ValidConfig(cfg) => (equity = <<>> /\ log = <<>> /\ pc \in {"simulate", "raised"})

\* C24 (what the code does): the configuration is never examined.  A run with an
\* invalid configuration raises only for an empty series, as a valid one does, and
\* otherwise returns an equity curve with one computed entry per bar.
C24_InvalidConfigRuns ==
    ~ValidConfig(cfg) =>
        /\ pc = "raised" => Len(bars) = 0
        /\ pc = "done" => /\ Len(equity) = Len(bars)
                          /\ Len(bars) > 0
                          /\ \A t \in 1..Len(bars) :
                                bars[t] > 0 => IsFinite(equity[t])

\* A run with negative cash returned a full curve, anchored at that cash
C24_Witness ==
    /\ pc = "done"
    /\ RLt(cfg.cash, Zero)
    /\ Len(equity) = 2
    /\ equity[1] = cfg.cash

----
(* Claims about the signal generator, checked under SpecSignals *)

Emitted(side, t) ==
    \E k \in 1..Len(signals) : signals[k].side = side /\ signals[k].timestamp = t

\* The edges and the trend as the specification words them, from the zone flags.
\* Bar 1 has no predecessor.
BuyEdge(t) == ind.green[t] /\ (t = 1 \/ ~ind.green[t - 1])
SellEdge(t) == ind.red[t] /\ (t = 1 \/ ~ind.red[t - 1])

LastBuyEdge(t) == {k \in 1..t : BuyEdge(k)}
LastSellEdge(t) == {k \in 1..t : SellEdge(k)}

SetMax(S) == CHOOSE x \in S : \A y \in S : y <= x

\* bars-since-buy-edge < bars-since-sell-edge, infinite when the edge never occurred
BullishAt(t) ==
    /\ LastBuyEdge(t) # {}
    /\ LastSellEdge(t) = {} \/ SetMax(LastBuyEdge(t)) > SetMax(LastSellEdge(t))

BearishAt(t) ==
    /\ LastSellEdge(t) # {}
    /\ LastBuyEdge(t) = {} \/ SetMax(LastSellEdge(t)) > SetMax(LastBuyEdge(t))

\* C8: calculate_signals emits at most one signal per bar, and never a BUY and a
\* SELL with the same bar timestamp.
C8_OneSignalPerBar ==
    \A a, b \in 1..Len(signals) : a # b => signals[a].timestamp # signals[b].timestamp

\* A finished run that emitted a SELL and, at a later bar, a BUY
C8_Witness ==
    /\ pc = "done"
    /\ Len(signals) >= 2
    /\ signals[1].side = SELL
    /\ signals[2].side = BUY
    /\ signals[1].timestamp < signals[2].timestamp

\* C9: a BUY is emitted at bar t iff t is not the first bar, bearish[t-1] and
\* buy_edge[t]; a SELL iff t is not the first bar, bullish[t-1] and sell_edge[t];
\* the first bar never emits.
C9_EmissionRule ==
    pc = "done" =>
        /\ \A t \in 1..Len(bars) :
              /\ Emitted(BUY, t) <=> (t > 1 /\ BearishAt(t - 1) /\ BuyEdge(t))
              /\ Emitted(SELL, t) <=> (t > 1 /\ BullishAt(t - 1) /\ SellEdge(t))
        /\ \A k \in 1..Len(signals) : signals[k].timestamp \in 2..Len(bars)

\* A finished run with a BUY at a buy edge that follows a bearish bar, and a buy
\* edge elsewhere that emitted nothing
C9_Witness ==
    /\ pc = "done"
    /\ \E t \in 2..Len(bars) : Emitted(BUY, t) /\ BearishAt(t - 1) /\ BuyEdge(t)
    /\ \E t \in 2..Len(bars) : BuyEdge(t) /\ ~Emitted(BUY, t)
    /\ \E t \in 2..Len(bars) : Emitted(SELL, t)

\* Some buy edge or sell edge at or before bar t
EdgeSeenBy(t) == \E k \in 1..t : BuyEdge(k) \/ SellEdge(k)

\* C13: bullish and bearish are never both true at a bar; both are false at every
\* bar before the first buy or sell edge, and exactly one is true from the first
\* edge onward.
C13_TrendFlags ==
    pc \in {"emit", "done"} =>
        \A t \in 1..Len(bars) :
            /\ ~(bullish[t] /\ bearish[t])
            /\ ~EdgeSeenBy(t) => (~bullish[t] /\ ~bearish[t])
            /\ EdgeSeenBy(t) => (bullish[t] \/ bearish[t])

\* A series without edge at first, then bearish, then bullish
C13_Witness ==
    /\ pc = "done"
    /\ Len(bars) >= 4
    /\ ~EdgeSeenBy(2)
    /\ \E t \in 3..Len(bars) : bearish[t] /\ ~bullish[t]
    /\ \E t \in 3..Len(bars) : bullish[t] /\ ~bearish[t]

MaxPeriod == IF params.fast_period > params.slow_period
             THEN params.fast_period ELSE params.slow_period

FirstEdge(t) == (BuyEdge(t) \/ SellEdge(t)) /\ ~EdgeSeenBy(t - 1)

\* C28: the first zone edge of a series emits no signal; no signal is emitted at
\* the first or the second bar; the first emitted signal is a BUY only after an
\* earlier sell edge and a SELL only after an earlier buy edge.
C28_FirstEdgeSilent ==
    pc \in {"emit", "done"} =>
        /\ \A t \in 1..Len(bars) :
              FirstEdge(t) => (~Emitted(BUY, t) /\ ~Emitted(SELL, t))
        /\ \A k \in 1..Len(signals) : signals[k].timestamp > 2
        /\ signals # <<>> =>
              LET first == signals[1]
              IN /\ first.side = BUY =>
                       \E k \in 1..(first.timestamp - 1) : SellEdge(k)
                 /\ first.side = SELL =>
                       \E k \in 1..(first.timestamp - 1) : BuyEdge(k)
                 /\ \E k \in 1..(first.timestamp - 1) : FirstEdge(k)

\* A series whose first edge is a sell edge, silent, and whose first signal is the
\* BUY of the buy edge that follows
C28_Witness ==
    /\ pc = "done"
    /\ signals # <<>>
    /\ signals[1].side = BUY
    /\ \E t \in 2..(signals[1].timestamp - 1) :
          FirstEdge(t) /\ SellEdge(t) /\ ~Emitted(SELL, t)

\* C30: the emitted signals alternate in side: between two BUY signals there is a
\* SELL signal and between two SELL signals a BUY signal.
C30_SidesAlternate ==
    /\ \A k \in 1..(Len(signals) - 1) :
          /\ signals[k].side # signals[k + 1].side
          /\ signals[k].timestamp < signals[k + 1].timestamp
    /\ \A a, b \in 1..Len(signals) :
          (a < b /\ signals[a].side = signals[b].side) =>
              \E m \in (a + 1)..(b - 1) : signals[m].side # signals[a].side

\* A finished run whose last signal is followed by an edge of the same side, which
\* emitted nothing
C30_Witness ==
    /\ pc = "done"
    /\ signals # <<>>
    /\ LET last == signals[Len(signals)]
       IN \E t \in (last.timestamp + 1)..Len(bars) :
             /\ IF last.side = BUY THEN BuyEdge(t) ELSE SellEdge(t)
             /\ ~Emitted(BUY, t) /\ ~Emitted(SELL, t)

----
(* Claims about the zone flags, checked under SpecZones *)

ZoneNames == {"green", "blue", "light_blue", "red", "orange", "yellow"}

\* The zones flagged at bar t of the table
ZonesAt(t) == {z \in ZoneNames : ind[z][t]}

Computed == pc = "done"

\* C11: at every bar, whatever the price and the two averages are, at most one
\* of the six zone flags is true.
C11_ZonesExclusive ==
    Computed => \A t \in 1..Len(ind.price) : Cardinality(ZonesAt(t)) <= 1

\* A bar in the yellow zone: bull, price between the two averages
C11_Witness ==
    /\ Computed
    /\ ind.bull[1]
    /\ ZonesAt(1) = {"yellow"}

DefinedAt(t) == ~IsNaN(ind.price[t]) /\ ~IsNaN(ind.fast_ma[t]) /\ ~IsNaN(ind.slow_ma[t])

\* C12 (as claimed): at every bar whose price and averages are defined exactly
\* one of the six zone flags is true, ties included.
C12_ExactlyOneZone ==
    Computed => \A t \in 1..Len(ind.price) : DefinedAt(t) => Cardinality(ZonesAt(t)) = 1

\* C12 (amended): at a bar whose price and averages are defined exactly one
\* flag is true when the three values are pairwise different, and none is true
\* when two of them are equal.
C12_ExactlyOneZoneUnlessTie ==
    Computed =>
        \A t \in 1..Len(ind.price) :
            DefinedAt(t) =>
                IF /\ ind.fast_ma[t] # ind.slow_ma[t]
                   /\ ind.price[t] # ind.fast_ma[t]
                   /\ ind.price[t] # ind.slow_ma[t]
                THEN Cardinality(ZonesAt(t)) = 1
                ELSE ZonesAt(t) = {}

\* A bull bar whose price sits on the fast average: no zone
C12_Witness ==
    /\ Computed
    /\ ind.bull[1]
    /\ ind.price[1] = ind.fast_ma[1]
    /\ IsFinite(ind.price[1])
    /\ ZonesAt(1) = {}

----
(* Claims about run_backtest, checked under SpecBacktest *)

\* C14: a second run_backtest on the same instance, bars and configuration
\* returns the signal list and the equity curve of the first, and no run writes
\* an attribute of the instance.
C14_RunsAgree ==
    /\ (stage = "returned" /\ previous # NoResult) =>
          /\ result.signals = previous.signals
          /\ result.equity_curve = previous.equity_curve
          /\ result = previous
    /\ instance = NewInstance

\* Two finished runs that traded: a SELL and a BUY were emitted and the curve moved
C14_Witness ==
    /\ stage = "returned"
    /\ previous # NoResult
    /\ Len(result.signals) >= 2
    /\ result.equity_curve[Len(bars)] # cfg.cash
    /\ Len(log) >= 2

\* At least two bars, all with the same close
FlatSeries == Len(bars) >= 2 /\ \A t \in 1..Len(bars) : bars[t] = bars[1]

\* C27: on a series of at least two bars with one and the same close no buy edge
\* and no sell edge occurs, calculate_signals returns no signal, the equity curve
\* is constant at the initial cash and run_backtest reports total_return,
\* sharpe_ratio, max_drawdown and win_rate 0.
C27_FlatSeries ==
    FlatSeries =>
        /\ ind # NoIndicators => \A t \in 1..Len(bars) : ~BuyEdge(t) /\ ~SellEdge(t)
        /\ pc \notin {"calculate", "emit"} => signals = <<>>
        /\ pc # "raised"
        /\ stage = "returned" =>
              /\ result.signals = <<>>
              /\ Len(result.equity_curve) = Len(bars)
              /\ \A t \in 1..Len(bars) : result.equity_curve[t] = cfg.cash
              /\ result.total_return = Zero
              /\ result.sharpe_ratio = Zero
              /\ result.max_drawdown = Zero
              /\ result.win_rate = Zero
              /\ result.total_trades = 0

\* The result of a run on four bars of one close
C27_Witness ==
    /\ stage = "returned"
    /\ FlatSeries
    /\ Len(bars) = MaxRunBars
    /\ bars[1] = 2
    /\ result.max_drawdown = Zero
    /\ result.equity_curve[Len(bars)] = cfg.cash

----
(* Claims about BacktestReport, checked under SpecReport *)

Analyzed == pc \in {"periods", "drawdown", "analyzed", "summarized", "raised"}

\* The FLAT/LONG machine over the first n signals: a BUY makes it LONG, a SELL FLAT
LongAfter(sigs, n) == n > 0 /\ sigs[n].side = BUY

\* The SELLs that take the machine from LONG to FLAT
Closings(sigs) == {n \in 1..Len(sigs) : sigs[n].side = SELL /\ LongAfter(sigs, n - 1)}

IsClosed(trade) == trade.exit_time # NoTime
IsOpen(trade) == "status" \in DOMAIN trade /\ trade.status = "OPEN"

\* C15: the number of closed trades is the number of LONG-to-FLAT transitions of
\* the signal list; at most one trade is OPEN and it is the last of the list.
C15_TradePairing ==
    Analyzed =>
        /\ Cardinality({k \in 1..Len(trades) : IsClosed(trades[k])})
              = Cardinality(Closings(result.signals))
        /\ Cardinality({k \in 1..Len(trades) : IsOpen(trades[k])}) <= 1
        /\ \A k \in 1..Len(trades) : IsOpen(trades[k]) => k = Len(trades)
        /\ \A k \in 1..Len(trades) : IsOpen(trades[k]) # IsClosed(trades[k])

\* BUY, BUY, SELL, BUY: one closed trade, then an open one
C15_Witness ==
    /\ Analyzed
    /\ Len(result.signals) = 4
    /\ CountSide(result.signals, BUY) = 3
    /\ Len(trades) = 2
    /\ IsClosed(trades[1])
    /\ IsOpen(trades[2])

\* The BUYs since the last closing before signal n (n excluded)
BuysBefore(sigs, n) ==
    {b \in 1..(n - 1) :
        /\ sigs[b].side = BUY
        /\ \A c \in Closings(sigs) : ~(b < c /\ c < n)}

SetMin(S) == CHOOSE x \in S : \A y \in S : x <= y

\* The signal index at which the k-th trade of the list ends: its closing SELL,
\* or the end of the list for the OPEN trade
RECURSIVE NthClosing(_, _)
NthClosing(sigs, k) ==
    IF k = 1 THEN SetMin(Closings(sigs))
    ELSE SetMin({c \in Closings(sigs) : c > NthClosing(sigs, k - 1)})

TradeEnd(sigs, k) ==
    IF k <= Cardinality(Closings(sigs)) THEN NthClosing(sigs, k) ELSE Len(sigs) + 1

EntryIs(trade, signal) ==
    /\ trade.entry_time = signal.timestamp
    /\ trade.entry_price = signal.price
    /\ trade.quantity = signal.quantity

\* C16 (as claimed): the entry of every reported trade is the first BUY after
\* the previous close; a BUY that arrives while a trade is open changes nothing.
C16_EntryIsFirstBuy ==
    Analyzed =>
        \A k \in 1..Len(trades) :
            EntryIs(trades[k],
                    result.signals[SetMin(BuysBefore(result.signals,
                                                     TradeEnd(result.signals, k)))])

\* C16 (what the code does): the entry of every reported trade is the last BUY
\* before its end; every BUY replaces the trade that is open.
C16_EntryIsLastBuy ==
    Analyzed =>
        \A k \in 1..Len(trades) :
            EntryIs(trades[k],
                    result.signals[SetMax(BuysBefore(result.signals,
                                                     TradeEnd(result.signals, k)))])

\* BUY at 1, BUY at 3, SELL: the trade is reported as entered at the second BUY
C16_Witness ==
    /\ Analyzed
    /\ Len(result.signals) >= 3
    /\ result.signals[1].side = BUY /\ result.signals[1].price = One
    /\ result.signals[2].side = BUY /\ result.signals[2].price = RInt(3)
    /\ result.signals[3].side = SELL
    /\ Len(trades) >= 1
    /\ trades[1].entry_time = 2
    /\ trades[1].exit_time = 3

Summarized == pc = "summarized"

EndsWithBuy(sigs) == Len(sigs) > 0 /\ sigs[Len(sigs)].side = BUY

AllButLast(ts) == SubSeq(ts, 1, Len(ts) - 1)

AggregateFields ==
    {"total_trades", "winning_trades", "losing_trades", "avg_win", "avg_loss",
     "max_win", "max_loss", "avg_duration_days", "profit_factor", "best_trade",
     "worst_trade"}

\* C17: when the signal list ends with a BUY, the trade list holds exactly one
\* OPEN trade, the last, with null exit fields; the summary counts it under
\* open_trades = 1 and every other trade statistic is what the closed trades
\* alone give.
C17_TrailingOpenTrade ==
    /\ (Analyzed /\ EndsWithBuy(result.signals)) =>
          /\ Len(trades) >= 1
          /\ Cardinality({k \in 1..Len(trades) : IsOpen(trades[k])}) = 1
          /\ LET last == trades[Len(trades)]
             IN /\ IsOpen(last)
                /\ last.exit_time = NoTime
                /\ last.exit_price = None
                /\ last.profit_loss = None
                /\ last.profit_loss_pct = None
                /\ last.duration_days = None
    /\ (Summarized /\ EndsWithBuy(result.signals)) =>
          /\ summary.open_trades = 1
          /\ summary.total_trades = Len(trades) - 1
          /\ summary.winning_trades + summary.losing_trades <= Len(trades) - 1
          /\ \A f \in AggregateFields :
                summary[f] = Summary(result, AllButLast(trades), drawdown_periods)[f]

\* A closed winning trade followed by a trailing BUY, summarised
C17_Witness ==
    /\ Summarized
    /\ EndsWithBuy(result.signals)
    /\ Len(trades) = 2
    /\ summary.winning_trades = 1
    /\ summary.open_trades = 1

ClosedIn(ts) == {k \in 1..Len(ts) : IsClosed(ts[k])}
WinsIn(ts) == {k \in ClosedIn(ts) : RGt(ts[k].profit_loss, Zero)}

\* C18 (as claimed): the win_rate of the result and of the summary is the number
\* of closed trades with profit_loss > 0 over the number of closed trades, 0
\* without trades.
C18_WinRateOfClosedTrades ==
    Summarized =>
        /\ summary.win_rate = result.win_rate
        /\ result.win_rate =
              IF ClosedIn(trades) = {} THEN Zero
              ELSE FDiv(RInt(Cardinality(WinsIn(trades))),
                        RInt(Cardinality(ClosedIn(trades))))

\* C18 (what the code does): the win_rate of the result and of the summary is the
\* number of BUY signals over the number of signals, 0 without signals.
C18_WinRateIsBuyShare ==
    Summarized =>
        /\ summary.win_rate = result.win_rate
        /\ result.win_rate =
              IF Len(result.signals) = 0 THEN Zero
              ELSE FDiv(RInt(Cardinality({k \in 1..Len(result.signals) :
                                            result.signals[k].side = BUY})),
                        RInt(Len(result.signals)))

\* One losing trade, BUY at 3 and SELL at 1: the reported win rate is 1/2
C18_Witness ==
    /\ Summarized
    /\ Len(result.signals) = 2
    /\ Len(trades) = 1
    /\ summary.losing_trades = 1
    /\ summary.winning_trades = 0
    /\ summary.win_rate = Half

LossesIn(ts) == {k \in ClosedIn(ts) : RLe(ts[k].profit_loss, Zero)}
UncountedIn(ts) == {k \in ClosedIn(ts) : IsNaN(ts[k].profit_loss)}

\* C19 (as claimed): every closed trade is counted in exactly one of
\* winning_trades (profit_loss > 0) and losing_trades (profit_loss <= 0), a
\* profit_loss of 0 is a loss, and winning_trades + losing_trades = total_trades.
C19_WinLossPartition ==
    Summarized =>
        /\ summary.winning_trades = Cardinality(WinsIn(trades))
        /\ summary.losing_trades = Cardinality(ClosedIn(trades) \ WinsIn(trades))
        /\ \A k \in ClosedIn(trades) : trades[k].profit_loss = Zero => k \in LossesIn(trades)
        /\ summary.winning_trades + summary.losing_trades = summary.total_trades

\* C19 (what the code does): winning_trades counts profit_loss > 0, losing_trades
\* counts profit_loss <= 0 (0 included); the two add up to total_trades less the
\* closed trades whose profit_loss is NaN, which are in neither.
C19_WinLossExceptNaN ==
    Summarized =>
        /\ summary.winning_trades = Cardinality(WinsIn(trades))
        /\ summary.losing_trades = Cardinality(LossesIn(trades))
        /\ WinsIn(trades) \cap LossesIn(trades) = {}
        /\ \A k \in ClosedIn(trades) : trades[k].profit_loss = Zero => k \in LossesIn(trades)
        /\ summary.winning_trades + summary.losing_trades
              = summary.total_trades - Cardinality(UncountedIn(trades))
        /\ \A k \in UncountedIn(trades) : trades[k].entry_price = Zero

\* A trade that made nothing counted as a loss next to a trade entered at price
\* 0, counted nowhere
C19_Witness ==
    /\ Summarized
    /\ summary.total_trades = 2
    /\ \E k \in ClosedIn(trades) : trades[k].profit_loss = Zero
    /\ summary.losing_trades = 1
    /\ summary.winning_trades = 0
    /\ UncountedIn(trades) # {}

ZeroFields ==
    {"avg_win", "avg_loss", "max_win", "max_loss", "avg_duration_days", "win_rate"}

CountFields == {"total_trades", "winning_trades", "losing_trades", "open_trades"}

ReportEnded == pc \in {"summarized", "raised"}

\* C20 (as claimed): without signals generate_summary raises nothing and every
\* trade-derived metric is 0 or empty, profit_factor included.
C20_ZeroTradesAllZero ==
    (ReportEnded /\ result.signals = <<>>) =>
        /\ Summarized
        /\ \A f \in CountFields : summary[f] = 0
        /\ \A f \in ZeroFields : summary[f] = Zero
        /\ summary.profit_factor = Zero
        /\ summary.best_trade = NoTrade /\ summary.worst_trade = NoTrade
        /\ summary.trades = <<>>

\* C20 (what the code does): without signals generate_summary raises exactly
\* when the equity curve has a single point; otherwise the counts and averages
\* are 0, best_trade and worst_trade are None, the trade list is empty and
\* profit_factor is +inf.
C20_ZeroTradesSummary ==
    (ReportEnded /\ result.signals = <<>>) =>
        /\ pc = "raised" <=> Len(result.equity_curve) = 1
        /\ Summarized =>
              /\ \A f \in CountFields : summary[f] = 0
              /\ \A f \in ZeroFields : summary[f] = Zero
              /\ summary.profit_factor = PosInf
              /\ summary.best_trade = NoTrade /\ summary.worst_trade = NoTrade
              /\ summary.trades = <<>>

\* The summary of a two-bar result without signals
C20_Witness ==
    /\ Summarized
    /\ result.signals = <<>>
    /\ Len(result.equity_curve) = 2
    /\ summary.total_trades = 0
    /\ summary.profit_factor = PosInf

\* A one-bar result without signals: generate_summary raised
C20_RaisedWitness ==
    /\ pc = "raised"
    /\ result.signals = <<>>
    /\ Len(result.equity_curve) = 1

\* C21: profit_factor is |avg_win / avg_loss| when avg_loss is not 0 and +inf when
\* it is 0, which is the case exactly when no closed trade has a negative
\* profit_loss; computing it never divides by zero.
C21_ProfitFactor ==
    Summarized =>
        /\ summary.profit_factor # ZeroDivisionError
        /\ summary.avg_loss # Zero =>
              summary.profit_factor = FAbs(FDiv(summary.avg_win, summary.avg_loss))
        /\ summary.avg_loss = Zero => summary.profit_factor = PosInf
        /\ summary.avg_loss = Zero <=>
              \A k \in LossesIn(trades) : trades[k].profit_loss = Zero

\* A winning and a losing trade: a finite, positive profit factor
C21_Witness ==
    /\ Summarized
    /\ summary.winning_trades = 1
    /\ summary.losing_trades = 1
    /\ RLt(summary.avg_loss, Zero)
    /\ IsFinite(summary.profit_factor)
    /\ RGt(summary.profit_factor, Zero)

----
(* Claims about the drawdown, checked under SpecDrawdown *)

Curve == result.equity_curve

\* The drawdown series of the report (on the equity curve) and of run_backtest
\* (on the cumulative returns)
ReportDrawdown(t) == DrawdownAt(Curve, t)
RunDrawdown == DrawdownSeries(Cumulative(Returns(Curve)))

PeriodsDone == pc \in {"analyzed", "summarized", "raised"}

\* C25 (as claimed): on a curve of positive values every drawdown value is <= 0 in
\* both computations, max_drawdown is <= 0 and every reported period's
\* max_drawdown is < 0.
C25_DrawdownNonPositive ==
    PeriodsDone =>
        LET run == RunDrawdown
        IN /\ \A t \in 1..Len(Curve) : RLe(ReportDrawdown(t), Zero)
           /\ \A t \in 1..Len(run) : RLe(run[t], Zero)
           /\ RLe(result.max_drawdown, Zero)
           /\ \A k \in 1..Len(drawdown_periods) :
                 RLt(drawdown_periods[k].max_drawdown, Zero)

\* C25 (what the code guarantees): the report's drawdown values are <= 0 and its
\* periods' max_drawdown < 0.  run_backtest's drawdown values are <= 0, or NaN
\* where the running maximum of the cumulative product is 0 (a return rounded to
\* -1); its max_drawdown is <= 0 unless it is NaN, which it is for a curve of one
\* point (the minimum of an empty series) and when every drawdown value is NaN.
C25_DrawdownNonPositiveOrNaN ==
    PeriodsDone =>
        LET cumulative == Cumulative(Returns(Curve))
            run == DrawdownSeries(cumulative)
        IN /\ \A t \in 1..Len(Curve) : RLe(ReportDrawdown(t), Zero)
           /\ \A k \in 1..Len(drawdown_periods) :
                 RLt(drawdown_periods[k].max_drawdown, Zero)
           /\ \A t \in 1..Len(run) :
                 /\ IsNaN(run[t]) <=> \A u \in 1..t : cumulative[u] = Zero
                 /\ ~IsNaN(run[t]) => RLe(run[t], Zero)
           /\ IsNaN(result.max_drawdown) <=> \A t \in 1..Len(run) : IsNaN(run[t])
           /\ ~IsNaN(result.max_drawdown) =>
                 /\ RLe(result.max_drawdown, Zero)
                 /\ \E t \in 1..Len(run) : run[t] = result.max_drawdown
                 /\ \A t \in 1..Len(run) :
                       IsNaN(run[t]) \/ RLe(result.max_drawdown, run[t])

\* The report of a one-point curve: no drawdown value, max_drawdown NaN
C25_Witness ==
    /\ PeriodsDone
    /\ Len(Curve) = 1
    /\ IsNaN(result.max_drawdown)
    /\ drawdown_periods = <<>>

\* A curve with a reported period and a negative max_drawdown of run_backtest
C25_NegativeWitness ==
    /\ PeriodsDone
    /\ Len(drawdown_periods) = 2
    /\ RLt(result.max_drawdown, Zero)
    /\ drawdown_periods[1].max_drawdown # drawdown_periods[2].max_drawdown

\* The bars at which a run of negative drawdown begins
RunStarts ==
    {t \in 1..Len(Curve) :
        /\ RLt(ReportDrawdown(t), Zero)
        /\ t = 1 \/ ~RLt(ReportDrawdown(t - 1), Zero)}

\* The bar at which the drawdown of the run begun at s first returns to >= 0;
\* one past the last bar for a run still in progress there.
\* SetMin is the least element of a set of bars.
RunEnd(s) ==
    SetMin({t \in (s + 1)..(Len(Curve) + 1) :
               t = Len(Curve) + 1 \/ ~RLt(ReportDrawdown(t), Zero)})

InProgressAtEnd(s) == RunEnd(s) = Len(Curve) + 1

\* The minimum drawdown over the run begun at s
RunMin(s) ==
    LET values == {ReportDrawdown(t) : t \in s..(RunEnd(s) - 1)}
    IN CHOOSE v \in values : \A w \in values : RLe(v, w)

\* Period k is the report of the run begun at s
Reports(k, s) ==
    /\ drawdown_periods[k].start_date = s
    /\ drawdown_periods[k].max_drawdown = RunMin(s)
    /\ ~InProgressAtEnd(s) => drawdown_periods[k].end_date = RunEnd(s)

InTimeOrder ==
    \A k \in 1..(Len(drawdown_periods) - 1) :
        drawdown_periods[k].end_date < drawdown_periods[k + 1].start_date

\* C26 (as claimed): every maximal run of bars with drawdown < 0, a run in
\* progress at the last bar included, is reported as exactly one period (start,
\* minimum, end at the first bar with drawdown >= 0), in time order, without
\* overlap.
C26_EveryRunReported ==
    PeriodsDone =>
        /\ \A s \in RunStarts :
              Cardinality({k \in 1..Len(drawdown_periods) : Reports(k, s)}) = 1
        /\ Len(drawdown_periods) = Cardinality(RunStarts)
        /\ InTimeOrder

\* C26 (what the code does): the runs that end before the curve does are reported
\* so; a run still in progress at the last bar is not reported at all.
C26_EndedRunsReported ==
    PeriodsDone =>
        /\ \A s \in RunStarts :
              Cardinality({k \in 1..Len(drawdown_periods) : Reports(k, s)})
                  = IF InProgressAtEnd(s) THEN 0 ELSE 1
        /\ \A k \in 1..Len(drawdown_periods) :
              /\ drawdown_periods[k].start_date \in RunStarts
              /\ drawdown_periods[k].duration_days
                    = drawdown_periods[k].end_date - drawdown_periods[k].start_date
        /\ Len(drawdown_periods) = Cardinality({s \in RunStarts : ~InProgressAtEnd(s)})
        /\ InTimeOrder

\* One run was reported, with its minimum after its first bar, and the curve ends
\* in a second run, which is not
C26_Witness ==
    /\ PeriodsDone
    /\ Len(drawdown_periods) = 1
    /\ drawdown_periods[1].duration_days = 2
    /\ drawdown_periods[1].max_drawdown # ReportDrawdown(drawdown_periods[1].start_date)
    /\ \E s \in RunStarts : InProgressAtEnd(s)
    /\ dd_scan.in_drawdown

-----
(* Claims about run_backtest followed by the report, checked under SpecPipeline *)

\* run_backtest has returned the result of a single-bar series
SingleBarReturned == Len(bars) = 1 /\ stage = "returned"

\* C22 as stated: for a single-bar series run_backtest returns an equity curve of
\* exactly one point, the initial cash, and generate_summary on that result
\* completes without raising and reports 0 trades, total_return 0, sharpe_ratio 0
\* and volatility 0
C22_SingleBarSummary ==
    SingleBarReturned =>
        /\ result.equity_curve = <<cfg.cash>>
        /\ pc # "raised"
        /\ pc = "summarized" =>
              /\ summary.total_trades = 0
              /\ summary.total_return = Zero
              /\ summary.sharpe_ratio = Zero
              /\ summary.volatility = Zero

\* C22, what the code does: for a single-bar series run_backtest returns an equity
\* curve of exactly one point, the initial cash, with no signal, total_return 0
\* and sharpe_ratio 0; the report on it finds no trade and no drawdown period;
\* generate_summary never completes on it: the curve has no return, 252 /
\* len(returns) raises ZeroDivisionError and no summary is produced
C22_SingleBarRaises ==
    SingleBarReturned =>
        /\ result.equity_curve = <<cfg.cash>>
        /\ result.signals = <<>>
        /\ result.total_trades = 0
        /\ result.total_return = Zero
        /\ result.sharpe_ratio = Zero
        /\ Returns(result.equity_curve) = <<>>
        /\ IsNaN(Volatility(Returns(result.equity_curve)))
        /\ trades = <<>>
        /\ drawdown_periods = <<>>
        /\ pc # "summarized"
        /\ summary = NoSummary

\* A single-bar backtest whose generate_summary has raised
C22_Witness ==
    /\ SingleBarReturned
    /\ result.equity_curve = <<cfg.cash>>
    /\ pc = "raised"

\* The simulator's executions, from its log
Executions(event) == Cardinality({k \in 1..Len(log) : log[k].event = event})

\* The SELL signals that follow some BUY signal
SellsAfterBuy(sigs) ==
    Cardinality({k \in 1..Len(sigs) :
                    /\ sigs[k].side = SELL
                    /\ \E b \in 1..(k - 1) : sigs[b].side = BUY})

\* run_backtest has returned and _analyze_trades has gone through its signals
PipelineAnalyzed == stage = "returned" /\ Analyzed /\ pc # "analyze"

\* The simulator executed every BUY and every SELL but a SELL before the first
\* BUY; the report's closed trades are the simulator's LONG to FLAT transitions,
\* and it has an open trade exactly when the simulator ends LONG
SimulatorMatchesReport ==
    /\ Executions(BuyExecuted) = CountSide(result.signals, BUY)
    /\ Executions(SellExecuted) = SellsAfterBuy(result.signals)
    /\ Len(ClosedTrades(trades)) = Executions(SellExecuted)
    /\ (OpenTrades(trades) # <<>>) <=> IsLong

\* C31 as stated: for the signals of calculate_signals over positive closes, cash
\* > 0 and max_position_size in (0, 1], the simulator executes every emitted BUY
\* and every emitted SELL except a SELL before the first BUY; the report's CLOSED
\* trades are as many as the simulator's LONG to FLAT transitions and the report
\* has an OPEN trade if and only if the simulator ends the series LONG
C31_ReportMatchesSimulator == PipelineAnalyzed => SimulatorMatchesReport

\* C31, what the code does: the report's trades follow the signals alone (one
\* CLOSED trade for every SELL after a BUY, an OPEN trade when the last signal is
\* a BUY); the simulator executes no more than that, and as much when
\* max_position_size is below 1.  With max_position_size 1 the cost shares x price
\* can round above the cash: the BUY is skipped, the SELL after it is ignored, and
\* the report counts a trade the simulator never made
C31_ReportFollowsSignals ==
    PipelineAnalyzed =>
        /\ Len(ClosedTrades(trades)) = SellsAfterBuy(result.signals)
        /\ (OpenTrades(trades) # <<>>)
               <=> (result.signals # <<>>
                    /\ result.signals[Len(result.signals)].side = BUY)
        /\ Executions(BuyExecuted) <= CountSide(result.signals, BUY)
        /\ Executions(SellExecuted) <= Len(ClosedTrades(trades))
        /\ IsLong => OpenTrades(trades) # <<>>
        /\ cfg.max_position_size # One => SimulatorMatchesReport

\* A backtest whose first BUY was skipped for its rounded cost and whose SELL was
\* then ignored: the report has a CLOSED trade, the simulator executed nothing
C31_Witness ==
    /\ PipelineAnalyzed
    /\ cfg.max_position_size = One
    /\ log = <<>>
    /\ Len(ClosedTrades(trades)) = 1

\* A backtest under max_position_size 1/2 with a BUY and a SELL executed and a
\* CLOSED trade reported
C31_AgreeWitness ==
    /\ PipelineAnalyzed
    /\ cfg.max_position_size = Half
    /\ Executions(SellExecuted) = 1
    /\ Len(ClosedTrades(trades)) = 1

\* The minimum of the drawdown series computed on the full equity curve, its
\* running peak including the first point (backtest_report.py:86-88)
CurveMinDrawdown ==
    LET drawdown == DrawdownSeries(Curve) IN SeriesMinTo(drawdown, Len(drawdown))

\* run_backtest has returned the result of two bars or more and the report has
\* listed its drawdown periods
DrawdownsListed == stage = "returned" /\ Len(bars) >= 2 /\ PeriodsDone

\* C32 as stated: for every result of run_backtest on at least two bars,
\* result.max_drawdown (from the cumulative period returns, which start at the
\* second bar) equals the minimum of the drawdown series of the full equity curve,
\* and is <= the max_drawdown of every drawdown period the report lists
C32_MaxDrawdownIsCurveMinimum ==
    DrawdownsListed =>
        /\ result.max_drawdown = CurveMinDrawdown
        /\ \A k \in 1..Len(drawdown_periods) :
               RLe(result.max_drawdown, drawdown_periods[k].max_drawdown)

\* C32, what the code does: the first two points of the curve equal the initial
\* cash (no signal is executed before the third bar), so the cumulative returns
\* start at the level of the first point and the two computations measure the same
\* declines; each rounds on its own way (e / e' - 1 and a running product against
\* (e - peak) / peak), and result.max_drawdown is within two units in the last
\* place of 1 of the minimum drawdown of the curve, not equal to it; it is
\* negative only if that minimum is; no listed period is deeper than the minimum
\* of the curve, but one may be deeper than result.max_drawdown
C32_MaxDrawdownNearCurveMinimum ==
    DrawdownsListed =>
        /\ Curve[1] = cfg.cash
        /\ Curve[2] = cfg.cash
        /\ RLe(RMul(Distance(result.max_drawdown, CurveMinDrawdown),
                    RInt(Pow2(Precision))),
               RInt(2))
        /\ RLt(result.max_drawdown, Zero) => RLt(CurveMinDrawdown, Zero)
        /\ \A k \in 1..Len(drawdown_periods) :
               RLe(CurveMinDrawdown, drawdown_periods[k].max_drawdown)

\* A result whose max_drawdown is negative and differs from the minimum drawdown
\* of its curve
C32_Witness ==
    /\ DrawdownsListed
    /\ RLt(result.max_drawdown, Zero)
    /\ RLt(CurveMinDrawdown, result.max_drawdown)

\* A listed drawdown period deeper than result.max_drawdown
C32_PeriodWitness ==
    /\ DrawdownsListed
    /\ \E k \in 1..Len(drawdown_periods) :
           RLt(drawdown_periods[k].max_drawdown, result.max_drawdown)

-----
(* TradingService (app/services/trading/service.py): start_live_trading and *)
(* stop_live_trading called by one client, one call after the other, and the *)
(* background threads that start_live_trading starts                         *)

\* Live sessions started in a run, and service calls made
MaxSessions == 2
MaxCalls == 4

Symbols == {"AAPL", "MSFT"}

\* strategy_factory.py:28: the registered name, and a name that is not registered
Registered == {"cdc_actionzone"}
StrategyNames == Registered \cup {"missing"}

\* live_trader.py:42-48: LiveTrader.__init__
NewTrader(cash) ==
    [is_running |-> FALSE, current_position |-> Zero, cash |-> cash,
     trade_history |-> <<>>, price_history |-> <<>>]

\* service.py:33: initial_cash = 100000 (the model's accounts hold 100)
InitialCash == RInt(100)

Failure(error) == [success |-> FALSE, error |-> error]
Success(message) == [success |-> TRUE, message |-> message]

\* A service method begins: the client's next call
Begins(op) ==
    /\ call.pc = "idle"
    /\ call.n < MaxCalls
    /\ handler.pc = "idle"

Returned(op, response) ==
    [call EXCEPT !.op = op, !.pc = "idle", !.n = call.n + 1, !.response = response]

\* Mutant: the guard of start_live_trading is never true
AlreadyTradingNever(svc) == FALSE

\* service.py:39: if self.is_trading
AlreadyTrading(svc) == svc.is_trading

\* service.py:92: if not self.is_trading
NoSession(svc) == ~svc.is_trading

\* service.py:39-40
StartRejected ==
    /\ Begins("start")
    /\ AlreadyTrading(service)
    /\ call' = Returned("start", Failure("Trading already in progress"))
    /\ UNCHANGED <<service, traders, threads, market, handler, effects>>
    /\ UNCHANGED nonLive

\* service.py:43-55: create_strategy returns None for a name that is not registered
StartNotFound ==
    /\ Begins("start")
    /\ ~AlreadyTrading(service)
    /\ \E name \in StrategyNames \ Registered :
          call' = Returned("start", Failure("Strategy not found"))
    /\ UNCHANGED <<service, traders, threads, market, handler, effects>>
    /\ UNCHANGED nonLive

\* service.py:43-64: the LiveTrader is created and assigned, the thread is started;
\* the method has not yet updated is_trading
StartCreate ==
    /\ Begins("start")
    /\ ~AlreadyTrading(service)
    /\ Len(traders) < MaxSessions
    /\ \E symbol \in Symbols, name \in Registered :
          call' = [call EXCEPT !.op = "start", !.pc = "update", !.n = call.n + 1,
                               !.response = [symbol |-> symbol, strategy |-> name]]
    /\ traders' = Append(traders, NewTrader(InitialCash))
    /\ service' = [service EXCEPT !.live_trader = Len(traders) + 1]
    /\ threads' = Append(threads, [pc |-> "started", trader |-> 0])
    /\ UNCHANGED <<market, handler, effects>>
    /\ UNCHANGED nonLive

\* service.py:66-82
StartUpdate ==
    /\ call.op = "start"
    /\ call.pc = "update"
    /\ service' = [service EXCEPT !.is_trading = TRUE,
                                  !.current_symbol = call.response.symbol,
                                  !.current_strategy = call.response.strategy,
                                  !.start_time = market.now]
    /\ call' = [call EXCEPT !.pc = "idle", !.response = Success("Live trading started")]
    /\ UNCHANGED <<traders, threads, market, handler, effects>>
    /\ UNCHANGED nonLive

\* service.py:92-93
StopRejected ==
    /\ Begins("stop")
    /\ NoSession(service)
    /\ call' = Returned("stop", Failure("No trading session active"))
    /\ UNCHANGED <<service, traders, threads, market, handler, effects>>
    /\ UNCHANGED nonLive

\* service.py:96-97, 108-110: called where an event loop is running (the API's
\* endpoints are coroutines), asyncio.run raises RuntimeError; the method returns
\* the failure and the session stays as it is
StopInLoop ==
    /\ Begins("stop")
    /\ ~NoSession(service)
    /\ service.live_trader # 0
    /\ call' = Returned("stop", Failure("asyncio.run() cannot be called from a running event loop"))
    /\ UNCHANGED <<service, traders, threads, market, handler, effects>>
    /\ UNCHANGED nonLive

\* Every thread that can still set is_running of trader t has done so or ended:
\* none is between its start and the assignment of live_trader.py:74
Settled(t) ==
    \A k \in 1..Len(threads) :
        /\ threads[k].pc # "started"
        /\ threads[k].pc = "entered" => threads[k].trader # t

\* live_trader.py:84-90 from service.py:96-97: stop_trading returns early when
\* is_running is false, else clears it and stops the stream
StopTrader ==
    /\ Begins("stop")
    /\ ~NoSession(service)
    /\ service.live_trader # 0
    /\ LET t == service.live_trader
       IN /\ IF ~traders[t].is_running
             THEN UNCHANGED traders
             ELSE traders' = [traders EXCEPT ![t].is_running = FALSE]
          /\ call' = [call EXCEPT !.op = "stop", !.pc = "reset", !.n = call.n + 1,
                                  !.response = [trader |-> t],
                                  !.settled = IF Settled(t) THEN call.settled \cup {t}
                                              ELSE call.settled]
    /\ UNCHANGED <<service, threads, market, handler, effects>>
    /\ UNCHANGED nonLive

\* service.py:99-106
StopReset ==
    /\ call.op = "stop"
    /\ call.pc = "reset"
    /\ service' = NewService
    /\ call' = [call EXCEPT !.pc = "idle", !.response = Success("Live trading stopped"),
                            !.stopped = call.stopped \cup {call.response.trader}]
    /\ UNCHANGED <<traders, threads, market, handler, effects>>
    /\ UNCHANGED nonLive

\* service.py:61: the thread evaluates self.live_trader when it runs: the trader
\* assigned last, or None (AttributeError ends the thread)
ThreadEnter ==
    \E k \in 1..Len(threads) :
        /\ threads[k].pc = "started"
        /\ threads' = [threads EXCEPT ![k] =
                          IF service.live_trader = 0
                          THEN [pc |-> "died", trader |-> 0]
                          ELSE [pc |-> "entered", trader |-> service.live_trader]]
        /\ UNCHANGED <<service, traders, call, market, handler, effects>>
        /\ UNCHANGED nonLive

\* live_trader.py:70-82: start_trading, in the thread's event loop
ThreadStart ==
    \E k \in 1..Len(threads) :
        /\ threads[k].pc = "entered"
        /\ LET t == threads[k].trader
           IN IF traders[t].is_running
              THEN /\ threads' = [threads EXCEPT ![k].pc = "returned"]
                   /\ UNCHANGED traders
              ELSE /\ traders' = [traders EXCEPT ![t].is_running = TRUE]
                   /\ threads' = [threads EXCEPT ![k].pc = "streaming"]
        /\ UNCHANGED <<service, call, market, handler, effects>>
        /\ UNCHANGED nonLive

\* live_trader.py:82, 90: data_stream.run() returns once stop_trading has stopped
\* the stream
ThreadStreamEnd ==
    \E k \in 1..Len(threads) :
        /\ threads[k].pc = "streaming"
        /\ ~traders[threads[k].trader].is_running
        /\ threads' = [threads EXCEPT ![k].pc = "returned"]
        /\ UNCHANGED <<service, traders, call, market, handler, effects>>
        /\ UNCHANGED nonLive

InitService ==
    /\ bars = <<>>
    /\ cfg = [cash |-> RInt(100), max_position_size |-> Half]
    /\ params = UnusedParams
    /\ signals = <<>>
    /\ pc = "service"
    /\ i = 0
    /\ j = 0
    /\ current_cash = Zero
    /\ current_position = Zero
    /\ current_price = Zero
    /\ equity = <<>>
    /\ log = <<>>
    /\ before = Snapshot(Zero, Zero, <<>>)
    /\ ind = NoIndicators
    /\ buy = <<>>
    /\ sell = <<>>
    /\ bullish = <<>>
    /\ bearish = <<>>
    /\ NotRunning
    /\ NotReporting
    /\ NotLive

NextService ==
    \/ StartRejected
    \/ StartNotFound
    \/ StartCreate
    \/ StartUpdate
    \/ StopRejected
    \/ StopInLoop
    \/ StopTrader
    \/ StopReset
    \/ ThreadEnter
    \/ ThreadStart
    \/ ThreadStreamEnd

SpecService == InitService /\ [][NextService]_vars

-----
(* LiveTrader (app/trading/live_trader.py): one trader, the trade updates of *)
(* its data stream, _check_for_signals and _execute_signal                   *)

\* Minutes of a session, trades the stream delivers in a minute, and trades of a
\* burst inside one minute
MaxMinutes == 6
TicksPerBar == 10
MaxBurst == 1003

\* live_trader.py:109-110, 117, 133, 162-164
HistoryCap == 1000
CheckEvery == 10
MinHistory == 50
RecentMinutes == 5

\* The prices the stream reports; all trades of a minute are made at one price
StreamPrices == {1, 3}

\* service.py:48: max_position_size=0.1, as a float
Tenth == Fl(<<1, 10>>)

LiveConfig == [cash |-> InitialCash, max_position_size |-> Tenth]

\* The trader of the session
lt == traders[1]

\* list[-1000:]
LastOf(list, n) == IF Len(list) > n THEN SubSeq(list, Len(list) - n + 1, Len(list)) ELSE list

\* lines 109-110
Truncated(history) == LastOf(history, HistoryCap)

\* Mutant: the check is due on every update
CheckDueAlways(history) == TRUE

\* line 117: len(self.price_history) % 10 == 0
CheckDue(history) == Len(history) % CheckEvery = 0

\* lines 137-155: resample("1T") ... dropna(): one bar for every minute that has a
\* trade, its close the last price of the minute, in time order
Resampled(history) ==
    LET minutes == {history[n].timestamp : n \in 1..Len(history)}
        rank(m) == Cardinality({x \in minutes : x <= m})
        last(m) == CHOOSE n \in 1..Len(history) :
                       /\ history[n].timestamp = m
                       /\ \A n2 \in (n + 1)..Len(history) : history[n2].timestamp # m
    IN [r \in 1..Cardinality(minutes) |->
           LET m == CHOOSE x \in minutes : rank(x) = r
           IN [timestamp |-> m, close |-> history[last(m)].price]]

RECURSIVE EmittedFrom(_, _, _, _, _)
\* cdc_actionzone.py:113-171: the loop over the rows, from the second
EmittedFrom(rows, b, s, config, t) ==
    IF t > Len(rows) THEN <<>>
    ELSE (IF t = 1 THEN <<>>
          ELSE IF b[t] THEN <<BuySignal(rows[t].timestamp, RInt(rows[t].close), config)>>
          ELSE IF s[t] THEN <<SellSignal(rows[t].timestamp, RInt(rows[t].close))>>
          ELSE <<>>)
         \o EmittedFrom(rows, b, s, config, t + 1)

\* cdc_actionzone.py:75-180: calculate_signals as a function of the bars
CalculateSignals(rows, config, p) ==
    LET closes == [t \in 1..Len(rows) |-> rows[t].close]
        indicators == GetIndicators(closes, p)
        buycond == EdgeOf(indicators.green)
        sellcond == EdgeOf(indicators.red)
        b == BuySeries(Bearish(buycond, sellcond), buycond)
        s == SellSeries(Bullish(buycond, sellcond), sellcond)
    IN EmittedFrom(rows, b, s, config, 1)

\* lines 162-164: signal.timestamp > datetime.now() - timedelta(minutes=5)
Recent(signal, now) == signal.timestamp > now - RecentMinutes

\* lines 157-165: the signals _execute_signal is called with, in order
ToExecute(history, now) ==
    SelectSeq(CalculateSignals(Resampled(history), cfg, params),
              LAMBDA signal : Recent(signal, now))

\* lines 172-174
LiveSharesToBuy(trader, signal) ==
    FDiv(FMul(trader.cash, cfg.max_position_size), signal.price)

\* lines 187-206: the trader after a BUY order was accepted
Bought(trader, signal) ==
    LET shares_to_buy == LiveSharesToBuy(trader, signal)
        trade_record == [timestamp |-> signal.timestamp, type |-> "BUY",
                         price |-> signal.price, quantity |-> shares_to_buy,
                         value |-> FMul(shares_to_buy, signal.price)]
    IN [trader EXCEPT !.current_position = FAdd(trader.current_position, shares_to_buy),
                      !.cash = FSub(trader.cash, FMul(shares_to_buy, signal.price)),
                      !.trade_history = Append(trader.trade_history, trade_record)]

\* Mutant: the record is built before the position is cleared
SoldQuantityHeld(before_sale, after_sale) == before_sale.current_position

\* line 250: "quantity": self.current_position, read after line 243 cleared it
SoldQuantity(before_sale, after_sale) == after_sale.current_position

\* lines 239-256: the trader after a SELL order was accepted
Sold(trader, signal) ==
    LET proceeds == FMul(trader.current_position, signal.price)
        cleared == [trader EXCEPT !.cash = FAdd(trader.cash, proceeds),
                                  !.current_position = Zero]
        trade_record == [timestamp |-> signal.timestamp, type |-> "SELL",
                         price |-> signal.price,
                         quantity |-> SoldQuantity(trader, cleared),
                         value |-> proceeds]
    IN [cleared EXCEPT !.trade_history = Append(trader.trade_history, trade_record)]

\* Mutant: the books are updated before the order is submitted
AfterRaiseUpdated(trader, updated) == updated

\* lines 184, 231, 273-276: submit_order raised before any assignment; the handler
\* logs the error
AfterRaise(trader, updated) == trader

\* lines 170, 176 and 223: the branch taken for a signal
BuyBranch(trader, signal) ==
    /\ signal.side = BUY
    /\ RLe(trader.current_position, Zero)
    /\ RGt(LiveSharesToBuy(trader, signal), Zero)

SellBranch(trader, signal) ==
    /\ ~(signal.side = BUY /\ RLe(trader.current_position, Zero))
    /\ signal.side = SELL
    /\ RGt(trader.current_position, Zero)

OrderOf(signal, qty) ==
    [timestamp |-> signal.timestamp, side |-> signal.side, qty |-> qty,
     check |-> handler.checks]

\* lines 70-82: start_trading; the stream begins to deliver
StartTrading ==
    /\ handler.pc = "idle"
    /\ ~lt.is_running
    /\ handler.updates = 0
    /\ handler.ignored = 0
    /\ traders' = [traders EXCEPT ![1].is_running = TRUE]
    /\ UNCHANGED <<service, threads, call, market, handler, effects, nonLive>>

\* lines 86-90: stop_trading between two updates
StopTrading ==
    /\ handler.pc = "idle"
    /\ lt.is_running
    /\ traders' = [traders EXCEPT ![1].is_running = FALSE]
    /\ UNCHANGED <<service, threads, call, market, handler, effects, nonLive>>

\* lines 95-96: an update that was on its way when the trader stopped
TradeIgnored ==
    /\ handler.pc = "idle"
    /\ ~lt.is_running
    /\ handler.updates > 0
    /\ handler.ignored = 0
    /\ handler' = [handler EXCEPT !.ignored = 1]
    /\ UNCHANGED <<service, traders, threads, call, market, effects, nonLive>>

\* The next minute begins; its trades are made at a new price
ClockTick ==
    /\ handler.pc = "idle"
    /\ lt.is_running
    /\ market.ticks = market.per_bar
    /\ market.now < MaxMinutes
    /\ \E price \in StreamPrices :
          market' = [market EXCEPT !.now = market.now + 1, !.price = price, !.ticks = 0]
    /\ UNCHANGED <<service, traders, threads, call, handler, effects, nonLive>>

\* lines 93-118: an accepted trade update
TradeUpdate ==
    /\ handler.pc = "idle"
    /\ lt.is_running
    /\ market.ticks < market.per_bar
    /\ LET price_data == [timestamp |-> market.now, price |-> market.price]
           history == Truncated(Append(lt.price_history, price_data))
       IN /\ traders' = [traders EXCEPT ![1].price_history = history]
          /\ handler' = [handler EXCEPT !.updates = handler.updates + 1,
                                        !.pc = IF CheckDue(history) THEN "check" ELSE "idle"]
    /\ market' = [market EXCEPT !.ticks = market.ticks + 1]
    /\ UNCHANGED <<service, threads, call, effects, nonLive>>

\* lines 133-134
CheckTooShort ==
    /\ handler.pc = "check"
    /\ Len(lt.price_history) < MinHistory
    /\ handler' = [handler EXCEPT !.pc = "idle", !.checks = handler.checks + 1]
    /\ UNCHANGED <<service, traders, threads, call, market, effects, nonLive>>

\* lines 136-164
CheckSignals ==
    /\ handler.pc = "check"
    /\ Len(lt.price_history) >= MinHistory
    /\ handler' = [handler EXCEPT !.pc = "execute", !.checks = handler.checks + 1,
                                  !.pending = ToExecute(lt.price_history, market.now),
                                  !.k = 1]
    /\ UNCHANGED <<service, traders, threads, call, market, effects, nonLive>>

Pending == handler.pc = "execute" /\ handler.k <= Len(handler.pending)

\* lines 170-221: a BUY whose order the broker accepts
ExecuteBuy ==
    /\ Pending
    /\ LET signal == handler.pending[handler.k]
       IN /\ BuyBranch(lt, signal)
          /\ traders' = [traders EXCEPT ![1] = Bought(lt, signal)]
          /\ effects' = [effects EXCEPT
                !.orders = Append(effects.orders,
                                  OrderOf(signal, LiveSharesToBuy(lt, signal))),
                !.signal_callbacks = Append(effects.signal_callbacks, signal),
                !.trade_callbacks = Append(effects.trade_callbacks,
                                           Bought(lt, signal).trade_history[
                                               Len(lt.trade_history) + 1])]
    /\ handler' = [handler EXCEPT !.k = handler.k + 1]
    /\ UNCHANGED <<service, threads, call, market, nonLive>>

\* lines 223-271: a SELL whose order the broker accepts
ExecuteSell ==
    /\ Pending
    /\ LET signal == handler.pending[handler.k]
       IN /\ SellBranch(lt, signal)
          /\ traders' = [traders EXCEPT ![1] = Sold(lt, signal)]
          /\ effects' = [effects EXCEPT
                !.orders = Append(effects.orders, OrderOf(signal, lt.current_position)),
                !.signal_callbacks = Append(effects.signal_callbacks, signal),
                !.trade_callbacks = Append(effects.trade_callbacks,
                                           Sold(lt, signal).trade_history[
                                               Len(lt.trade_history) + 1])]
    /\ handler' = [handler EXCEPT !.k = handler.k + 1]
    /\ UNCHANGED <<service, threads, call, market, nonLive>>

\* lines 184, 231, 273-276: submit_order raises; the except clause logs and the
\* loop of _check_for_signals goes on
SubmitRaises ==
    /\ Pending
    /\ LET signal == handler.pending[handler.k]
       IN /\ BuyBranch(lt, signal) \/ SellBranch(lt, signal)
          /\ traders' = [traders EXCEPT ![1] =
                AfterRaise(lt, IF signal.side = BUY THEN Bought(lt, signal)
                               ELSE Sold(lt, signal))]
          /\ effects' = [effects EXCEPT
                !.errors = Append(effects.errors,
                                  [timestamp |-> signal.timestamp, side |-> signal.side,
                                   check |-> handler.checks])]
    /\ handler' = [handler EXCEPT !.k = handler.k + 1]
    /\ UNCHANGED <<service, threads, call, market, nonLive>>

\* lines 170, 176, 223: no branch is taken
ExecuteSkip ==
    /\ Pending
    /\ LET signal == handler.pending[handler.k]
       IN ~BuyBranch(lt, signal) /\ ~SellBranch(lt, signal)
    /\ handler' = [handler EXCEPT !.k = handler.k + 1]
    /\ UNCHANGED <<service, traders, threads, call, market, effects, nonLive>>

\* line 161: the loop has ended
CheckReturn ==
    /\ handler.pc = "execute"
    /\ handler.k > Len(handler.pending)
    /\ handler' = [handler EXCEPT !.pc = "idle", !.pending = <<>>, !.k = 0]
    /\ UNCHANGED <<service, traders, threads, call, market, effects, nonLive>>

\* A LiveTrader was constructed on a strategy; the stream will deliver per_bar
\* trades in a minute, from minute `first` on
InitLive(per_bar, first) ==
    /\ bars = <<>>
    /\ cfg = LiveConfig
    /\ params = PipelineParams
    /\ signals = <<>>
    /\ pc = "live"
    /\ i = 0
    /\ j = 0
    /\ current_cash = Zero
    /\ current_position = Zero
    /\ current_price = Zero
    /\ equity = <<>>
    /\ log = <<>>
    /\ before = Snapshot(Zero, Zero, <<>>)
    /\ ind = NoIndicators
    /\ buy = <<>>
    /\ sell = <<>>
    /\ bullish = <<>>
    /\ bearish = <<>>
    /\ NotRunning
    /\ NotReporting
    /\ service = NewService
    /\ traders = <<NewTrader(LiveConfig.cash)>>
    /\ threads = <<>>
    /\ call = NoCall
    /\ \E price \in StreamPrices :
          market = [now |-> first, price |-> price, ticks |-> 0, per_bar |-> per_bar]
    /\ handler = NoHandler
    /\ effects = NoEffects

InitStream == InitLive(TicksPerBar, 1)

NextStream ==
    \/ StartTrading
    \/ StopTrading
    \/ TradeIgnored
    \/ ClockTick
    \/ TradeUpdate
    \/ CheckTooShort
    \/ CheckSignals
    \/ ExecuteBuy
    \/ ExecuteSell
    \/ SubmitRaises
    \/ ExecuteSkip
    \/ CheckReturn

SpecStream == InitStream /\ [][NextStream]_vars

\* A burst: more trades than the history keeps, all in the last minute
InitBurst == InitLive(MaxBurst, MaxMinutes)

NextBurst ==
    \/ StartTrading
    \/ StopTrading
    \/ TradeIgnored
    \/ TradeUpdate
    \/ CheckTooShort
    \/ CheckSignals
    \/ CheckReturn

SpecBurst == InitBurst /\ [][NextBurst]_vars

-----
(* Claims about the TradingService, checked under SpecService *)

\* The client's next step begins the service method `op`
Invokes(op) == call.pc = "idle" /\ call'.n = call.n + 1 /\ call'.op = op

\* C33: start_live_trading called while is_trading is true returns the failure
\* 'Trading already in progress' and leaves is_trading, current_symbol,
\* current_strategy, start_time and live_trader unchanged (no trader is created,
\* no thread started); stop_live_trading called while is_trading is false returns
\* a failure and changes nothing
C33_OneSession ==
    [][/\ (Invokes("start") /\ service.is_trading)
            => /\ call'.response = Failure("Trading already in progress")
               /\ call'.pc = "idle"
               /\ service' = service
               /\ traders' = traders
               /\ threads' = threads
       /\ (Invokes("stop") /\ ~service.is_trading)
            => /\ call'.response.success = FALSE
               /\ call'.pc = "idle"
               /\ service' = service
               /\ traders' = traders
               /\ threads' = threads]_vars

\* start_live_trading was just rejected during a session
C33_Witness ==
    /\ service.is_trading
    /\ service.live_trader # 0
    /\ call.op = "start"
    /\ call.pc = "idle"
    /\ call.response = Failure("Trading already in progress")

\* stop_live_trading was just rejected with no session
C33_StopWitness ==
    /\ ~service.is_trading
    /\ call.op = "stop"
    /\ call.pc = "idle"
    /\ call.response = Failure("No trading session active")

\* C34 as stated: after stop_live_trading has returned success for a session, the
\* LiveTrader of that session is not running and never becomes running, under
\* every interleaving of the background thread with the caller
C34_StoppedNeverRuns ==
    \A t \in call.stopped : ~traders[t].is_running

\* C34, what the code does: the trader of a stopped session stays not running
\* when, as stop_trading read is_running, no thread was between its start and the
\* assignment of is_running for that trader.  A thread that is there (it holds the
\* trader, or will take self.live_trader before it is reset) sets is_running after
\* stop_trading returned, early or not, and nothing stops that trader any more:
\* the service has dropped it
C34_StoppedSettledNeverRuns ==
    /\ \A t \in call.stopped \cap call.settled : ~traders[t].is_running
    /\ \A t \in call.stopped : service.live_trader # t

\* stop_live_trading has returned success and the session's trader is running,
\* out of the service's reach
C34_Witness ==
    /\ call.pc = "idle"
    /\ call.op = "stop"
    /\ call.response = Success("Live trading stopped")
    /\ \E t \in call.stopped : traders[t].is_running /\ t \notin call.settled
    /\ service = NewService

\* A session stopped after its thread had set is_running: the trader is not
\* running
C34_SettledWitness ==
    /\ \E t \in call.stopped \cap call.settled :
           \E k \in 1..Len(threads) : threads[k].trader = t /\ threads[k].pc = "returned"

-----
(* Claims about the LiveTrader, checked under SpecStream and SpecBurst *)

Orders == effects.orders

\* Two orders were submitted for one signal
SameSignal(a, b) ==
    /\ Orders[a].timestamp = Orders[b].timestamp
    /\ Orders[a].side = Orders[b].side

\* C35 as stated: a generated signal, identified by its timestamp and side, leads
\* to at most one submitted order over the whole session, also when a BUY and a
\* later SELL are both still recent
C35_OneOrderPerSignal ==
    \A a \in 1..Len(Orders), b \in 1..Len(Orders) : a # b => ~SameSignal(a, b)

\* C35, what the code does: only the position guards of _execute_signal stand
\* between a signal and an order.  The orders alternate BUY, SELL, BUY ...; one
\* invocation of _check_for_signals submits a signal at most once; a later
\* invocation submits a recent BUY again once the SELL after it has closed the
\* position, and then that SELL again
C35_OrdersAlternate ==
    /\ \A n \in 1..Len(Orders) : Orders[n].side = IF n % 2 = 1 THEN BUY ELSE SELL
    /\ \A a \in 1..Len(Orders), b \in 1..Len(Orders) :
           (a < b /\ SameSignal(a, b)) => Orders[a].check < Orders[b].check

\* A BUY signal and the SELL after it were each submitted twice, by two
\* invocations of _check_for_signals
C35_Witness ==
    /\ Len(Orders) >= 4
    /\ SameSignal(1, 3)
    /\ SameSignal(2, 4)
    /\ Orders[1].side = BUY
    /\ Orders[1].check < Orders[3].check

\* C36: if submitting the market order raises, cash, current_position and
\* trade_history are unchanged, no signal or trade callback is invoked and the
\* exception does not propagate (the loop of _check_for_signals goes on with the
\* next signal); cash and position change only with an order submitted
\* successfully
C36_RaiseLeavesBooks ==
    [][/\ Len(effects'.errors) > Len(effects.errors)
            => /\ lt'.cash = lt.cash
               /\ lt'.current_position = lt.current_position
               /\ lt'.trade_history = lt.trade_history
               /\ effects'.signal_callbacks = effects.signal_callbacks
               /\ effects'.trade_callbacks = effects.trade_callbacks
               /\ effects'.orders = effects.orders
               /\ handler'.pc = "execute"
               /\ handler'.k = handler.k + 1
       /\ (lt'.cash # lt.cash \/ lt'.current_position # lt.current_position)
            => Len(effects'.orders) = Len(effects.orders) + 1]_vars

\* A submission has raised while a position was held (a SELL), the books are as
\* the BUY left them, and the loop is going on
C36_Witness ==
    /\ handler.pc = "execute"
    /\ Len(effects.errors) = 1
    /\ effects.errors[1].side = SELL
    /\ Len(Orders) = 1
    /\ Len(lt.trade_history) = 1
    /\ RGt(lt.current_position, Zero)
    /\ Len(effects.trade_callbacks) = 1

\* The step is an accepted trade update
Accepted == handler'.updates = handler.updates + 1

\* C37 as stated: while the trader runs, _check_for_signals is invoked on exactly
\* every tenth accepted trade update and on no other, also after price_history
\* has reached its cap of 1000 entries
C37_EveryTenthUpdate ==
    [][Accepted => (handler'.pc = "check" <=> handler'.updates % CheckEvery = 0)]_vars

\* C37, what the code does: the test is on the length of price_history, not on a
\* count of updates.  Up to the 1000th update the two agree and every tenth update
\* is checked; from the 1000th on the length stays 1000 after every update and
\* _check_for_signals runs on every one
C37_CheckFollowsLength ==
    [][Accepted =>
        /\ handler'.pc = "check" <=> Len(lt'.price_history) % CheckEvery = 0
        /\ Len(lt'.price_history) =
               IF handler'.updates <= HistoryCap THEN handler'.updates ELSE HistoryCap
        /\ handler'.updates <= HistoryCap
               => (handler'.pc = "check" <=> handler'.updates % CheckEvery = 0)
        /\ handler'.updates >= HistoryCap => handler'.pc = "check"]_vars

\* The 1001st accepted update, not a tenth one, has invoked _check_for_signals
C37_Witness ==
    /\ handler.updates = HistoryCap + 1
    /\ handler.pc = "check"
    /\ Len(lt.price_history) = HistoryCap

Records == lt.trade_history

\* C38 as stated: every SELL record of trade_history carries the quantity that
\* was sold, the position held immediately before the sell, so that quantity x
\* price equals the record's value
C38_SellRecordsQuantity ==
    \A n \in 1..Len(Records) :
        Records[n].type = "SELL"
            => /\ Records[n].quantity = Orders[n].qty
               /\ FMul(Records[n].quantity, Records[n].price) = Records[n].value

\* C38, what the code does: a SELL record's value is (position sold) x price, the
\* quantity of the order, but its quantity is read after current_position was set
\* to 0.0 and is always 0; a BUY record carries the quantity bought
C38_SellRecordsZero ==
    /\ Len(Records) = Len(Orders)
    /\ \A n \in 1..Len(Records) :
           /\ Records[n].type = "SELL"
                => /\ Records[n].quantity = Zero
                   /\ RGt(Orders[n].qty, Zero)
                   /\ Records[n].value = FMul(Orders[n].qty, Records[n].price)
           /\ Records[n].type = "BUY"
                => /\ Records[n].quantity = Orders[n].qty
                   /\ Records[n].value = FMul(Records[n].quantity, Records[n].price)

\* A SELL record of positive value and quantity 0
C38_Witness ==
    /\ Len(Records) >= 2
    /\ Records[2].type = "SELL"
    /\ RGt(Records[2].value, Zero)
    /\ Records[2].quantity = Zero
    /\ lt.current_position = Zero

====
